---- MODULE Spec2Model ----
(***************************************************************************)
(* A model of wr, first of all of cloud.Server (src/cloud/server.go): the  *)
(* per-host resource accounting (Allocate, Release, HasSpaceFor), the idle *)
(* destruction countdown that Release spawns, Destroy, and the cancellable *)
(* remote command execution of RunCmd with the SSH client and sessions it  *)
(* uses (SSHClient, SSHSession), and the bad-host marks (GoneBad, NotBad). *)
(*                                                                         *)
(* Granularity.  Every method body that runs under s.mutex is one action,  *)
(* because no other goroutine can observe its intermediate states.  A      *)
(* method is split only where the code can block or where it releases the  *)
(* mutex: a send on a full channel (the sender keeps the mutex, recorded   *)
(* in the variable mutex), a receive, a select, a Lock().  Goroutines are  *)
(* program counters: countdown[g] for the goroutine started at             *)
(* server.go:118, and rc/watcher/runner for the three goroutines of one    *)
(* RunCmd call.                                                            *)
(*                                                                         *)
(* Time is abstracted: a timer that has been started may fire at any later *)
(* moment.  Channels are modelled by the number (or the sequence) of       *)
(* values they buffer; a send is enabled when the buffer has room, a       *)
(* receive when it is not empty.                                           *)
(*                                                                         *)
(* Specifications:                                                         *)
(*   Spec          Allocate / Release / countdown / Destroy on one host    *)
(*   FairSpec      Spec with weak fairness of the goroutines' steps        *)
(*   SpecRunCmd    RunCmd calls racing with Destroy                        *)
(*   SpecPlacement Allocate / Release / HasSpaceFor on hosts of several    *)
(*                 flavors                                                 *)
(*   SpecCopies    Allocate / Release of one job, counted, and HasSpaceFor *)
(*   SpecBad       GoneBad / NotBad / Destroy with Allocate and Release    *)
(*   SpecHost      Allocate / Release / countdown racing with one RunCmd   *)
(*   SpecLifecycle every operation on one host, one job placed once        *)
(*   SpecSSH       SSHClient's dial loop and SSHSession's goroutines, as   *)
(*                 called by RunCmd                                        *)
(*   FairSpecSSH   SpecSSH with time passing and goroutines running        *)
(*   SpecTeardown  SpecSSH's calls with Destroy                            *)
(*                                                                         *)
(* The other parts share no state with the host and have specifications    *)
(* of their own:                                                           *)
(*   SpecSubQueue  package queue's sub-queue as a binary heap: push, pop,  *)
(*                 remove and update on the delay queue                    *)
(*   SpecDelayTest the calls of src/queue/delay_queue_test.go              *)
(*   SpecMultiQueue the multi-state queue over the five sub-queues         *)
(*   SpecK8s       runCmd and reqCheck of the k8s scheduler backend        *)
(*                 (src/unnamed/part_000) with the controller's answers    *)
(*   SpecKill      the run of wr kill (src/cmd/kill.go)                    *)
(*   SpecRewrite   rewriteConfigFiles of the k8s scheduler backend, in its *)
(*                 two versions, on lists of up to MaxPaths paths          *)
(***************************************************************************)
EXTENDS Integers, Sequences, FiniteSets, TLC

\* ---------------------------------------------------------------- bounds

\* Idle-destruction goroutines that may be alive at the same time (a slot is
\* reused once its goroutine has returned).
MaxCountdowns == 2

\* RunCmd calls made on the host.
MaxRunCmds == 2

\* Paths listed in the configFiles string given to rewriteConfigFiles.
MaxPaths == 3

\* The used-counters are kept within -MaxDebt .. MaxUsed.
MaxUsed == 5
MaxDebt == 1

\* Largest single requirement of an Allocate / Release / HasSpaceFor call.
MaxReq == 2

\* Allocate calls counted for the observed job.
MaxAllocs == 3

\* Items a queue is given.
MaxItems == 5

\* Ready-at times, in units the delays are multiples of.
MaxTime == 3

\* The multi-state queue: the keys of its items, the items ever added, and
\* the time-to-release of an item.
MaxJobs == 3
MaxAdds == 3
TTR == 1

\* The last tick of the multi-state queue's clock.
MaxNow == 1

\* Cluster backends (k8s instances) of the process, and the runCmd and
\* reqCheck calls made on them.
MaxBackends == 2
MaxK8sCalls == 2

\* Jobs the manager holds when the kill command runs.
MaxKillJobs == 2

\* delay_queue_test.go:32: the items the test pushes.
TestItems == 10
\* sshTimeOut in seconds.  SSHClient only compares the time passed with it.
sshTimeOut == 3
\* server.go:232: the loop ends at the 45th counted attempt.
MaxTicks == 45
\* server.go:266-267: the buffers of SSHSession's channels done and worked.
SessionChCap == 1

\* ------------------------------------------------------ program constants

\* make(chan bool, 4), server.go:125
CancelDestructionCap == 4

\* make(chan bool, 1), server.go:312 (cancelCh) and :314 (done)
CancelChCap == 1

Countdowns == 1..MaxCountdowns
RunCmds == 1..MaxRunCmds

VARIABLES
    \* ---- fields of Server (server.go:51-78)
    Flavor,             \* [Cores, RAM]: the capacity of the flavor
    Disk,               \* GB of disk
    TTD,                \* idle time allowed before destruction (0: never)
    provider,           \* TRUE iff s.provider is set (nil in the tests)
    usedRAM,
    usedCores,
    usedDisk,
    onDeathrow,
    mutex,              \* "free", or the method blocked while holding it
    cancelDestruction,  \* number of values buffered in the current channel
    stale,              \* how many of them were sent before the current countdown began
    cancelRunCmd,       \* map cancelID -> the RunCmd call whose channel it is
    cancelID,
    destroyed,
    goneBad,
    permanentProblem,
    sshclient,          \* 0 (nil), or the SSHClient call whose dial made the client
    \* ---- goroutines
    countdown,          \* pc of each goroutine started by Release
    rc,                 \* pc of each RunCmd call
    watcher,            \* pc of the goroutine of server.go:318
    runner,             \* pc of the goroutine of server.go:330
    \* ---- locals of a RunCmd call shared between its goroutines
    cancelCh,           \* [buf, closed]
    finished,           \* number of buffered values
    done,               \* sequence of buffered errors
    outCh,              \* number of buffered values (outCh and errCh)
    err,                \* the named result err, written by two goroutines
    sessionOpen,        \* the ssh session has not been closed
    ret,                \* what the call returned, and what it received on done
    \* ---- SSHClient and SSHSession, as called by each RunCmd call (server.go:301)
    ssh,                \* pc of the call inside SSHSession
    ticks,              \* the local ticks of the SSHClient call that is dialling
    elapsed,            \* seconds since that call started its timer `limit`
    tickReady,          \* its ticker has a tick to deliver
    timerG,             \* pc of the goroutine of server.go:269
    openerG,            \* pc of the goroutine of server.go:278
    sdone,              \* SSHSession's channel done: sequence of buffered errors
    worked,             \* SSHSession's channel worked: number of buffered values
    madeSession,        \* the session NewSession returned to the goroutine
    sessionsMade,       \* sessions the client has opened so far
    gotClient,          \* the client SSHClient returned to the call (0: none)
    sshRet,             \* what SSHSession returned to the call
    dialled,            \* the call has called ssh.Dial
    timedOut,           \* the timer goroutine sent its error while NewSession had not returned
    \* ---- the priority sub-queues of package queue and their items
    defaultScriptName,  \* the package-level variable of package scheduler
    config,             \* each k8s instance's config.ConfigMap ("unset" before initialize)
    calls,              \* the runCmd and reqCheck calls of the cluster backends
    controller,         \* the requests the controller has received and not answered
    kill,               \* the run of the kill command: its flags, position and exit
    jobState,           \* the state of each job the manager holds
    rewrite,            \* the call of rewriteConfigFiles: its arguments and what it returned
    deps,               \* the keys each item of the queue still waits for
    delayOf,            \* the delay of each item that waits for others
    added,              \* items ever added to the queue
    deleted,            \* items ever deleted from the queue
    now,                \* the queue's clock
    subq,               \* the items of each sub-queue, by key, as its heap array
    item,               \* the attributes of each item
    pushSeq,            \* pushes made so far on any sub-queue
    pops,               \* the keys pop has returned, in order
    popRet,             \* what the last pop returned
    lastUpdated,        \* the item update was last called on
    \* ---- what callers observed (history)
    allocDuring,        \* an Allocate returned on a live host during g's countdown
    destroyedBy,        \* who marked the host destroyed
    idleReleased,       \* the last of Allocate/Release was a Release that left the host idle
    destroyRet,         \* what the last Destroy call returned
    providerCalls,      \* number of calls of provider.DestroyServer
    signals,            \* number of values ever sent on each cancelCh
    atDestroy,          \* rc and registrations when the host was marked destroyed
    hsf,                \* the last HasSpaceFor call and its result, for the usage as it is
    tally,              \* the calls of Allocate and Release made for one observed job
    lastBadCall,        \* the last of GoneBad / NotBad that was called
    providerSaid,       \* what DestroyServer and CheckServer answered to Destroy
    registeredAs        \* the id each RunCmd call registered its channel under (-1: none yet)

flavorVars == <<Flavor, Disk, TTD, provider>>
usedVars == <<usedRAM, usedCores, usedDisk>>
badVars == <<goneBad, permanentProblem>>
deathrowVars == <<onDeathrow, cancelDestruction, stale, countdown>>
registryVars == <<cancelRunCmd, cancelID>>
runCmdVars == <<rc, watcher, runner, cancelCh, finished, done, outCh, err, sessionOpen, ret>>
dialVars == <<ticks, elapsed, tickReady>>
sessionVars == <<timerG, openerG, sdone, worked, madeSession, sessionsMade>>
sshVars == <<sshclient, ssh, dialVars, sessionVars, gotClient, sshRet, dialled, timedOut>>
historyVars == <<allocDuring, destroyedBy, idleReleased, destroyRet, providerCalls, signals, atDestroy, hsf,
               tally, lastBadCall, providerSaid, registeredAs>>

\* every field of Server the model holds
hostVars == <<flavorVars, usedVars, badVars, onDeathrow, cancelDestruction, registryVars, destroyed>>

serverVars == <<flavorVars, usedVars, badVars, deathrowVars, registryVars, destroyed, mutex,
                runCmdVars, sshVars, historyVars>>

queueVars == <<subq, item, pushSeq, pops, popRet, lastUpdated>>

k8sVars == <<defaultScriptName, config, calls, controller>>

killVars == <<kill, jobState>>
rewriteVars == <<rewrite>>
mqVars == <<deps, delayOf, added, deleted, now>>

\* What is not part of a cloud.Server.
otherVars == <<queueVars, mqVars, k8sVars, killVars, rewriteVars>>

vars == <<serverVars, otherVars>>

Reqs == 0..MaxReq

\* The calls of Spec ask for the same amount of every resource; SpecPlacement
\* varies the three amounts independently.
Jobs == {<<n, n, n>> : n \in Reqs}

\* ------------------------------------------------------------------ Init

\* hsf before any HasSpaceFor call, and once the usage it answered for has
\* changed.
NoAnswer ==
    [called |-> FALSE, cores |-> 0, ramMB |-> 0, diskGB |-> 0,
     ret |-> [panic |-> FALSE, n |-> 0]]

\* The keys items can have, the five sub-queues, and an item no sub-queue
\* has held yet.
ItemKeys == 0 .. (IF MaxItems > TestItems THEN MaxItems ELSE TestItems) - 1
SubQueues == {"delay", "ready", "run", "bury", "depend"}
NoItem == [tag |-> "none", priority |-> 0, created |-> 0, readyAt |-> 0, releaseAt |-> 0,
           pushed |-> 0]
Nil == -1
NoPop == -2

\* newSubQueue: every sub-queue is empty.
NoQueue ==
    /\ deps = [k \in ItemKeys |-> {}]
    /\ delayOf = [k \in ItemKeys |-> 0]
    /\ added = 0
    /\ deleted = 0
    /\ now = 0
    /\ subq = [q \in SubQueues |-> <<>>]
    /\ item = [k \in ItemKeys |-> NoItem]
    /\ pushSeq = 0
    /\ pops = <<>>
    /\ popRet = NoPop
    /\ lastUpdated = Nil

\* var defaultScriptName = "wr-default", part_000:66
DefaultScriptName == "wr-default"

Backends == 1 .. MaxBackends
K8sCalls == 1 .. MaxK8sCalls

\* A call that has not been made, and the reply a call has before the
\* controller has answered (`for` is the call whose request is answered).
NoReply == [for |-> 0, err |-> "nil"]
\* `spawn` is what Spawn returned to the call and `reserved` the values the
\* call has sent on reservedCh, in order.
NoCall == [op |-> "none", backend |-> 0, pc |-> "idle", script |-> "", spawn |-> "none",
           reserved |-> <<>>, cbChan |-> 0, sent |-> 0, reply |-> NoReply, destroys |-> 0,
           ret |-> "none"]

\* The cluster backends before initialize.
NoK8s ==
    /\ defaultScriptName = DefaultScriptName
    /\ config = [b \in Backends |-> "unset"]
    /\ calls = [c \in K8sCalls |-> NoCall]
    /\ controller = {}

\* The kill command before it runs, and the manager's jobs.
KillJobs == 1 .. MaxKillJobs
JobStates == {"ready", "running", "buried"}
NotExited == -1
NotCalled == {0}
NoKill == [pc |-> "idle", flags |-> {}, connects |-> 0, seen |-> <<>>, jobs |-> NotCalled,
           passed |-> NotCalled, killErr |-> FALSE, exit |-> NotExited]

NoKillCmd ==
    /\ kill = NoKill
    /\ jobState = [j \in KillJobs |-> "ready"]

\* rewriteConfigFiles has not been called.
NoRewrite ==
    rewrite = [pc |-> "idle", version |-> "none", configFiles |-> <<>>, present |-> {},
               ret |-> [panic |-> FALSE, filePairs |-> <<>>]]

\* sshRet before SSHSession has returned.
NoSession == [client |-> 0, n |-> 0]
NotReturned == [returned |-> FALSE, session |-> NoSession, err |-> "nil"]

\* providerSaid before the provider has been called.
NotAsked == [destroyFailed |-> FALSE, checked |-> FALSE, stillExists |-> FALSE]

\* The tally of a host on which the calls made for `job` are counted; no
\* call is made for the job <<>>, so nothing is counted then.
Observing(job) == tally = [job |-> job, allocs |-> 0, releases |-> 0]

\* One more call of Allocate (kind "allocs") or Release (kind "releases") has
\* been made, counted when it is for the observed job.
Tallied(kind, cores, ramMB, diskGB) ==
    tally' = IF tally.job = <<cores, ramMB, diskGB>>
               THEN [tally EXCEPT ![kind] = @ + 1]
               ELSE tally

\* A Server as Spawn() hands it out: nothing used, not on deathrow, no
\* goroutine started.  The calls made for `job` will be counted.
NewServerObserving(flavor, disk, ttd, prov, job) ==
    /\ NoQueue
    /\ NoK8s
    /\ NoKillCmd
    /\ NoRewrite
    /\ Flavor = flavor
    /\ Disk = disk
    /\ TTD = ttd
    /\ provider = prov
    /\ usedRAM = 0
    /\ usedCores = 0
    /\ usedDisk = 0
    /\ onDeathrow = FALSE
    /\ mutex = "free"
    /\ cancelDestruction = 0
    /\ stale = 0
    /\ cancelRunCmd = <<>>
    /\ cancelID = 0
    /\ destroyed = FALSE
    /\ goneBad = FALSE
    /\ permanentProblem = ""
    /\ countdown = [g \in Countdowns |-> "idle"]
    /\ rc = [r \in RunCmds |-> "idle"]
    /\ watcher = [r \in RunCmds |-> "idle"]
    /\ runner = [r \in RunCmds |-> "idle"]
    /\ cancelCh = [r \in RunCmds |-> [buf |-> 0, closed |-> FALSE]]
    /\ finished = [r \in RunCmds |-> 0]
    /\ done = [r \in RunCmds |-> <<>>]
    /\ outCh = [r \in RunCmds |-> 0]
    /\ err = [r \in RunCmds |-> "nil"]
    /\ sessionOpen = [r \in RunCmds |-> FALSE]
    /\ ret = [r \in RunCmds |-> [err |-> "none", out |-> FALSE, got |-> "none"]]
    /\ sshclient = 0
    /\ ssh = [r \in RunCmds |-> "idle"]
    /\ ticks = 0
    /\ elapsed = 0
    /\ tickReady = FALSE
    /\ timerG = [r \in RunCmds |-> "idle"]
    /\ openerG = [r \in RunCmds |-> "idle"]
    /\ sdone = [r \in RunCmds |-> <<>>]
    /\ worked = [r \in RunCmds |-> 0]
    /\ madeSession = [r \in RunCmds |-> NoSession]
    /\ sessionsMade = 0
    /\ gotClient = [r \in RunCmds |-> 0]
    /\ sshRet = [r \in RunCmds |-> NotReturned]
    /\ dialled = [r \in RunCmds |-> FALSE]
    /\ timedOut = [r \in RunCmds |-> FALSE]
    /\ allocDuring = [g \in Countdowns |-> FALSE]
    /\ destroyedBy = [by |-> "none", g |-> 0]
    /\ idleReleased = FALSE
    /\ destroyRet = "none"
    /\ providerCalls = 0
    /\ signals = [r \in RunCmds |-> 0]
    /\ atDestroy = [rc |-> <<>>, registered |-> {}]
    /\ hsf = NoAnswer
    /\ Observing(job)
    /\ lastBadCall = "none"
    /\ providerSaid = NotAsked
    /\ registeredAs = [r \in RunCmds |-> -1]

NewServer(flavor, disk, ttd, prov) ==
    NewServerObserving(flavor, disk, ttd, prov, <<>>)

Init ==
    \E ttd \in 0..1, prov \in BOOLEAN :
        NewServer([Cores |-> 2, RAM |-> 2], 2, ttd, prov)

\* ------------------------------------------------- Allocate and Release

\* The pcs of a countdown goroutine from the moment it has put the host on
\* deathrow (server.go:126) until it returns.
Counting == {"select", "cancelled", "fired", "destroy", "destroySend"}

\* The pcs between setting onDeathrow (server.go:126) and clearing it
\* (server.go:135, :142).
OnRow == {"select", "cancelled", "fired"}

\* An Allocate call returns to its caller.
AllocateReturns ==
    allocDuring' = [g \in Countdowns |->
                      allocDuring[g] \/ (countdown[g] \in Counting /\ ~destroyed)]

\* server.go:88-103.  The send of line 100 blocks, with the mutex held, when
\* the channel's buffer is full.
Allocate(cores, ramMB, diskGB) ==
    /\ mutex = "free"
    /\ usedCores + cores <= MaxUsed
    /\ usedRAM + ramMB <= MaxUsed
    /\ usedDisk + diskGB <= MaxUsed
    /\ usedCores' = usedCores + cores
    /\ usedRAM' = usedRAM + ramMB
    /\ usedDisk' = usedDisk + diskGB
    /\ idleReleased' = FALSE
    /\ hsf' = NoAnswer
    /\ Tallied("allocs", cores, ramMB, diskGB)
    /\ IF ~onDeathrow
         THEN AllocateReturns /\ UNCHANGED <<mutex, cancelDestruction, stale>>
         ELSE IF cancelDestruction < CancelDestructionCap
                THEN /\ cancelDestruction' = cancelDestruction + 1
                     /\ UNCHANGED stale
                     /\ AllocateReturns
                     /\ UNCHANGED mutex
                ELSE /\ mutex' = "Allocate"
                     /\ UNCHANGED <<cancelDestruction, stale, allocDuring>>
    /\ UNCHANGED <<flavorVars, otherVars, sshVars, badVars, onDeathrow, countdown, registryVars, destroyed,
                   runCmdVars, destroyedBy, destroyRet, providerCalls, signals, atDestroy,
                   lastBadCall, providerSaid, registeredAs>>

\* The blocked send of server.go:100 completes once the channel has room, and
\* Allocate returns, releasing the mutex.
AllocateResume ==
    /\ mutex = "Allocate"
    /\ cancelDestruction < CancelDestructionCap
    /\ cancelDestruction' = cancelDestruction + 1
    /\ UNCHANGED stale
    /\ mutex' = "free"
    /\ AllocateReturns
    /\ UNCHANGED <<flavorVars, otherVars, sshVars, usedVars, badVars, onDeathrow, countdown, registryVars,
                   destroyed, runCmdVars, destroyedBy, idleReleased, destroyRet,
                   providerCalls, signals, atDestroy, hsf,
                   tally, lastBadCall, providerSaid, registeredAs>>

\* InitiateCountdown with the test of TTD left out.
InitiateCountdown_IgnoresTTD(cores) == cores <= 0

\* server.go:116: whether Release starts the goroutine of line 118.
InitiateCountdown(cores) == cores <= 0 /\ TTD > 0

\* server.go:106-152.  The goroutine is started while Release still holds the
\* mutex, so its first step waits for Release to return.  It takes the lowest
\* free slot; a Release that would need more than MaxCountdowns live
\* goroutines is not made.
Release(cores, ramMB, diskGB) ==
    /\ mutex = "free"
    /\ usedCores - cores >= -MaxDebt
    /\ usedRAM - ramMB >= -MaxDebt
    /\ usedDisk - diskGB >= -MaxDebt
    /\ usedCores' = usedCores - cores
    /\ usedRAM' = usedRAM - ramMB
    /\ usedDisk' = usedDisk - diskGB
    /\ hsf' = NoAnswer
    /\ Tallied("releases", cores, ramMB, diskGB)
    /\ IF InitiateCountdown(usedCores')
         THEN /\ \E g \in Countdowns :
                    /\ countdown[g] = "idle"
                    /\ \A h \in Countdowns : countdown[h] = "idle" => g <= h
                    /\ countdown' = [countdown EXCEPT ![g] = "start"]
              /\ idleReleased' = TRUE
         ELSE /\ UNCHANGED countdown
              /\ idleReleased' = FALSE
    /\ UNCHANGED <<flavorVars, otherVars, sshVars, badVars, onDeathrow, cancelDestruction, stale, registryVars,
                   destroyed, mutex, runCmdVars, allocDuring, destroyedBy, destroyRet,
                   providerCalls, signals, atDestroy, lastBadCall, providerSaid, registeredAs>>

\* ------------------------------------------- the idle-destruction goroutine

\* NewChannel, had the goroutine kept the channel of the countdown before.
NewChannel_Reused == cancelDestruction

\* server.go:125: make(chan bool, 4), a channel with nothing buffered.
NewChannel == 0

\* AnotherCountdownRuns, had the goroutine not looked at onDeathrow.
AnotherCountdownRuns_Never == FALSE

\* server.go:120: a countdown is running already.
AnotherCountdownRuns == onDeathrow

\* server.go:119-127: the goroutine takes the mutex; if another countdown is
\* running it returns, else it makes a fresh channel, puts the host on
\* deathrow and starts its timer.
CountdownStart(g) ==
    /\ countdown[g] = "start"
    /\ mutex = "free"
    /\ IF AnotherCountdownRuns
         THEN /\ countdown' = [countdown EXCEPT ![g] = "idle"]
              /\ UNCHANGED <<cancelDestruction, stale, onDeathrow, allocDuring>>
         ELSE /\ cancelDestruction' = NewChannel
              /\ stale' = cancelDestruction'
              /\ onDeathrow' = TRUE
              /\ countdown' = [countdown EXCEPT ![g] = "select"]
              /\ allocDuring' = [allocDuring EXCEPT ![g] = FALSE]
    /\ UNCHANGED <<flavorVars, otherVars, sshVars, usedVars, badVars, registryVars, destroyed, mutex,
                   runCmdVars, destroyedBy, idleReleased, destroyRet, providerCalls,
                   signals, atDestroy, hsf, tally, lastBadCall, providerSaid, registeredAs>>

\* server.go:133: the select receives a cancellation.  The receive needs no
\* mutex, so it also frees a slot for a sender blocked on the full channel.
CountdownCancelled(g) ==
    /\ countdown[g] = "select"
    /\ cancelDestruction > 0
    /\ cancelDestruction' = cancelDestruction - 1
    /\ stale' = IF stale > 0 THEN stale - 1 ELSE 0
    /\ countdown' = [countdown EXCEPT ![g] = "cancelled"]
    /\ UNCHANGED <<flavorVars, otherVars, sshVars, usedVars, badVars, onDeathrow, registryVars, destroyed,
                   mutex, runCmdVars, historyVars>>

\* server.go:139: TTD has passed and the select takes the timer's case (when
\* a cancellation is buffered as well, select picks either case).
CountdownTimeToDie(g) ==
    /\ countdown[g] = "select"
    /\ countdown' = [countdown EXCEPT ![g] = "fired"]
    /\ UNCHANGED <<flavorVars, otherVars, sshVars, usedVars, badVars, onDeathrow, cancelDestruction, stale,
                   registryVars, destroyed, mutex, runCmdVars, historyVars>>

\* OnDeathrowAfterCancel, had the cancellation path left the flag set.
OnDeathrowAfterCancel_Kept == TRUE

\* server.go:135: what the cancellation path assigns to onDeathrow.
OnDeathrowAfterCancel == FALSE

\* server.go:142: what the firing path assigns to onDeathrow.
OnDeathrowAfterFiring == FALSE

\* server.go:134-138: the cancelled goroutine takes the mutex, clears
\* onDeathrow and returns.
CountdownClearCancelled(g) ==
    /\ countdown[g] = "cancelled"
    /\ mutex = "free"
    /\ onDeathrow' = OnDeathrowAfterCancel
    /\ countdown' = [countdown EXCEPT ![g] = "idle"]
    /\ UNCHANGED <<flavorVars, otherVars, sshVars, usedVars, badVars, cancelDestruction, stale, registryVars,
                   destroyed, mutex, runCmdVars, historyVars>>

\* server.go:141-143: the goroutine whose timer fired takes the mutex, clears
\* onDeathrow and releases the mutex again before it calls Destroy.
CountdownClearFired(g) ==
    /\ countdown[g] = "fired"
    /\ mutex = "free"
    /\ onDeathrow' = OnDeathrowAfterFiring
    /\ countdown' = [countdown EXCEPT ![g] = "destroy"]
    /\ UNCHANGED <<flavorVars, otherVars, sshVars, usedVars, badVars, cancelDestruction, stale, registryVars,
                   destroyed, mutex, runCmdVars, historyVars>>

\* ---------------------------------------------------------------- Destroy

\* The RunCmd calls whose cancellation channel is in s.cancelRunCmd.
Registered == {cancelRunCmd[id] : id \in DOMAIN cancelRunCmd}

\* AlreadyDestroyed, had Destroy not looked at s.destroyed.
AlreadyDestroyed_Never == FALSE

\* server.go:620
AlreadyDestroyed == destroyed

\* SignalRunCmds, had the walk stopped after the first channel.
SignalRunCmds_StopsAfterFirst ==
    LET first == {cancelRunCmd[id] : id \in {i \in DOMAIN cancelRunCmd :
                                              \A j \in DOMAIN cancelRunCmd : i <= j}}
    IN  /\ \A r \in first : cancelCh[r].buf < CancelChCap
        /\ cancelCh' = [r \in RunCmds |->
                          IF r \in first
                            THEN [cancelCh[r] EXCEPT !.buf = @ + 1]
                            ELSE cancelCh[r]]
        /\ signals' = [r \in RunCmds |->
                          IF r \in first THEN signals[r] + 1 ELSE signals[r]]

\* server.go:633-635: one value is sent on every registered channel (a send
\* on a full channel would block).
SignalRunCmds ==
    /\ \A r \in Registered : cancelCh[r].buf < CancelChCap
    /\ cancelCh' = [r \in RunCmds |->
                      IF r \in Registered
                        THEN [cancelCh[r] EXCEPT !.buf = @ + 1]
                        ELSE cancelCh[r]]
    /\ signals' = [r \in RunCmds |->
                      IF r \in Registered THEN signals[r] + 1 ELSE signals[r]]

\* server.go:645-648: what the provider answered.  CheckServer is asked only
\* after DestroyServer has failed.
ProviderAnswers(destroyFailed, stillExists) ==
    [destroyFailed |-> destroyFailed, checked |-> destroyFailed,
     stillExists |-> destroyFailed /\ stillExists]

\* DestroyResult, had DestroyServer's error been returned without asking
\* CheckServer.
DestroyResult_IgnoresCheck(destroyFailed, stillExists) ==
    IF destroyFailed THEN "err" ELSE "nil"

\* server.go:645-654: DestroyServer's error is returned only when CheckServer
\* still finds the server.
DestroyResult(destroyFailed, stillExists) ==
    IF destroyFailed /\ stillExists THEN "err" ELSE "nil"

\* server.go:632-654: Destroy from the walk over cancelRunCmd to its return.
DestroyFinish(by, g) ==
    /\ SignalRunCmds
    /\ destroyed' = TRUE
    /\ goneBad' = TRUE
    /\ destroyedBy' = [by |-> by, g |-> g]
    /\ atDestroy' = [rc |-> rc, registered |-> Registered]
    /\ IF ~provider
         THEN /\ destroyRet' = "provider not set"
              /\ UNCHANGED <<providerCalls, providerSaid>>
         ELSE /\ providerCalls' = providerCalls + 1
              /\ \E destroyFailed \in BOOLEAN, stillExists \in BOOLEAN :
                    /\ destroyRet' = DestroyResult(destroyFailed, stillExists)
                    /\ providerSaid' = ProviderAnswers(destroyFailed, stillExists)

\* server.go:616-655, called by `by` ("client", or "countdown" for goroutine
\* g at server.go:145).  The send of line 628 blocks, with the mutex held,
\* when the channel's buffer is full.
Destroy(by, g) ==
    /\ mutex = "free"
    /\ IF AlreadyDestroyed
         THEN /\ destroyRet' = "nil"
              /\ UNCHANGED <<cancelDestruction, stale, cancelCh, signals, destroyed, goneBad,
                             destroyedBy, atDestroy, providerCalls, providerSaid, mutex>>
         ELSE IF onDeathrow /\ cancelDestruction >= CancelDestructionCap
                THEN /\ mutex' = by
                     /\ UNCHANGED <<cancelDestruction, stale, cancelCh, signals, destroyed,
                                    goneBad, destroyedBy, atDestroy, providerCalls,
                                    providerSaid, destroyRet>>
                ELSE /\ cancelDestruction' =
                           IF onDeathrow THEN cancelDestruction + 1 ELSE cancelDestruction
                     /\ DestroyFinish(by, g)
                     /\ UNCHANGED stale
                     /\ UNCHANGED mutex
    /\ UNCHANGED <<flavorVars, otherVars, sshVars, usedVars, permanentProblem, onDeathrow, registryVars,
                   rc, watcher, runner, finished, done, outCh, err, sessionOpen, ret,
                   allocDuring, idleReleased, hsf, tally, lastBadCall, registeredAs>>

\* The blocked send of server.go:628 completes once the channel has room, and
\* Destroy runs to its end.
DestroyResume(by, g) ==
    /\ mutex = by
    /\ cancelDestruction < CancelDestructionCap
    /\ cancelDestruction' = cancelDestruction + 1
    /\ UNCHANGED stale
    /\ DestroyFinish(by, g)
    /\ mutex' = "free"
    /\ UNCHANGED <<flavorVars, otherVars, sshVars, usedVars, permanentProblem, onDeathrow, registryVars,
                   rc, watcher, runner, finished, done, outCh, err, sessionOpen, ret,
                   allocDuring, idleReleased, hsf, tally, lastBadCall, registeredAs>>

\* A caller of the package calls s.Destroy().
ClientDestroy ==
    /\ Destroy("client", 0)
    /\ UNCHANGED countdown

ClientDestroyResume ==
    /\ DestroyResume("client", 0)
    /\ UNCHANGED countdown

\* server.go:145-147: the goroutine whose timer fired calls s.Destroy() and
\* returns.
CountdownDestroy(g) ==
    /\ countdown[g] = "destroy"
    /\ Destroy("countdown", g)
    /\ countdown' = [countdown EXCEPT ![g] = IF mutex' = "free" THEN "idle" ELSE "destroySend"]

CountdownDestroyResume(g) ==
    /\ countdown[g] = "destroySend"
    /\ DestroyResume("countdown", g)
    /\ countdown' = [countdown EXCEPT ![g] = "idle"]

\* ------------------------------------------------------ GoneBad and NotBad

\* The argument lists GoneBad is called with: none, an empty message, a
\* message, and two messages.
Problems == {<<>>, <<"">>, <<"disk full">>, <<"no sshd">>, <<"disk full", "no sshd">>}

\* server.go:580-588
GoneBad(args) ==
    /\ mutex = "free"
    /\ goneBad' = TRUE
    /\ permanentProblem' = IF Len(args) = 1 THEN args[1] ELSE permanentProblem
    /\ lastBadCall' = "GoneBad"
    /\ UNCHANGED <<flavorVars, otherVars, sshVars, usedVars, deathrowVars, registryVars, destroyed, mutex,
                   runCmdVars, allocDuring, destroyedBy, idleReleased, destroyRet,
                   providerCalls, signals, atDestroy, hsf, tally, providerSaid, registeredAs>>

\* NotBadClears, had NotBad not looked at the permanent problem.
NotBadClears_Always == TRUE

\* server.go:595: whether NotBad clears goneBad.
NotBadClears == permanentProblem = ""

\* NotBad, had changing one's mind about a host also revived a destroyed one.
NotBad_Revives ==
    /\ mutex = "free"
    /\ goneBad' = IF NotBadClears THEN FALSE ELSE goneBad
    /\ destroyed' = FALSE
    /\ lastBadCall' = "NotBad"
    /\ UNCHANGED <<flavorVars, otherVars, sshVars, usedVars, permanentProblem, deathrowVars, registryVars,
                   mutex, runCmdVars, allocDuring, destroyedBy, idleReleased,
                   destroyRet, providerCalls, signals, atDestroy, hsf, tally,
                   providerSaid, registeredAs>>

\* server.go:592-598
NotBad ==
    /\ mutex = "free"
    /\ goneBad' = IF NotBadClears THEN FALSE ELSE goneBad
    /\ lastBadCall' = "NotBad"
    /\ UNCHANGED <<flavorVars, otherVars, sshVars, usedVars, permanentProblem, deathrowVars, registryVars,
                   destroyed, mutex, runCmdVars, allocDuring, destroyedBy, idleReleased,
                   destroyRet, providerCalls, signals, atDestroy, hsf,
                   tally, providerSaid, registeredAs>>

\* server.go:601-605
IsBad == goneBad

\* server.go:609-613
PermanentProblem == permanentProblem

\* ----------------------------------------------- the host's specification

\* The steps of the idle-destruction goroutine g.
CountdownStep(g) ==
    \/ CountdownStart(g)
    \/ CountdownCancelled(g)
    \/ CountdownTimeToDie(g)
    \/ CountdownClearCancelled(g)
    \/ CountdownClearFired(g)
    \/ CountdownDestroy(g)
    \/ CountdownDestroyResume(g)

Next ==
    \/ \E job \in Jobs : Allocate(job[1], job[2], job[3])
    \/ AllocateResume
    \/ \E job \in Jobs : Release(job[1], job[2], job[3])
    \/ \E g \in Countdowns : CountdownStep(g)
    \/ ClientDestroy
    \/ ClientDestroyResume

Spec == Init /\ [][Next]_vars

\* Go schedules every runnable goroutine and every timer fires: a goroutine's
\* step that stays enabled is eventually taken, and so is the completion of a
\* send that has become possible.  Calls from outside (Allocate, Release,
\* Destroy) are under no obligation to happen.
FairSpec ==
    /\ Spec
    /\ \A g \in Countdowns : WF_vars(CountdownStep(g))
    /\ WF_vars(AllocateResume)
    /\ WF_vars(ClientDestroyResume)

\* ------------------------------------------------- SSHClient, SSHSession

\* What s.provider.PrivateKey() holds (server.go:188, 194), and how one
\* ssh.Dial ends: with a client, with one of the three connection errors of
\* server.go:222, or with any other error.
Keys == {"ok", "missing", "unparsable"}
Dials == {"ok", "conn", "other"}

unchangedBySSH ==
    UNCHANGED <<flavorVars, otherVars, usedVars, badVars, deathrowVars, registryVars, destroyed,
                watcher, runner, cancelCh, finished, done, outCh, historyVars>>

\* server.go:257-260, 291-294 and 301-305: SSHSession returns to RunCmd,
\* which goes on with the session or returns the error.
SSHSessionReturns(r, session, e) ==
    /\ ssh' = [ssh EXCEPT ![r] = "returned"]
    /\ sshRet' = [sshRet EXCEPT ![r] = [returned |-> TRUE, session |-> session, err |-> e]]
    /\ IF e = "nil"
         THEN /\ rc' = [rc EXCEPT ![r] = "session"]
              /\ sessionOpen' = [sessionOpen EXCEPT ![r] = TRUE]
              /\ UNCHANGED <<err, ret>>
         ELSE /\ rc' = [rc EXCEPT ![r] = "returned"]
              /\ err' = [err EXCEPT ![r] = "sessionErr"]
              /\ ret' = [ret EXCEPT ![r] = [err |-> "sessionErr", out |-> FALSE, got |-> "none"]]
              /\ UNCHANGED sessionOpen

\* server.go:186, 245-249: SSHClient unlocks and returns the client, or nil
\* and the error, which SSHSession passes on (server.go:257-260).
SSHClientReturns(r, client, e) ==
    /\ mutex' = "free"
    /\ ticks' = 0
    /\ elapsed' = 0
    /\ tickReady' = FALSE
    /\ gotClient' = [gotClient EXCEPT ![r] = client]
    /\ IF e = "nil"
         THEN /\ ssh' = [ssh EXCEPT ![r] = "client"]
              /\ UNCHANGED <<sshRet, rc, err, ret, sessionOpen>>
         ELSE SSHSessionReturns(r, NoSession, e)

Memoised_Never == FALSE

\* server.go:187: a client has been stored.
Memoised == sshclient # 0

\* server.go:185-213, 249: the call takes the mutex; with a stored client
\* it returns that; without a key it returns an error; otherwise it dials,
\* and on failure starts limit and the ticker and enters the loop, still
\* holding the mutex.
SSHClientCall(r, k, d) ==
    /\ ssh[r] = "idle"
    /\ rc[r] = "idle"
    /\ \A q \in RunCmds : q < r => rc[q] # "idle" \/ ssh[q] # "idle"
    /\ mutex = "free"
    /\ IF Memoised
         THEN /\ SSHClientReturns(r, sshclient, "nil")
              /\ UNCHANGED <<sshclient, dialled>>
         ELSE IF k # "ok"
         THEN /\ SSHClientReturns(r, 0, k)
              /\ UNCHANGED <<sshclient, dialled>>
         ELSE /\ dialled' = [dialled EXCEPT ![r] = TRUE]
              /\ IF d = "ok"
                   THEN /\ sshclient' = r
                        /\ SSHClientReturns(r, r, "nil")
                   ELSE /\ sshclient' = 0
                        /\ mutex' = "SSHClient"
                        /\ ssh' = [ssh EXCEPT ![r] = "select"]
                        /\ ticks' = 0
                        /\ elapsed' = 0
                        /\ tickReady' = FALSE
                        /\ UNCHANGED <<gotClient, sshRet, rc, err, ret, sessionOpen>>
    /\ UNCHANGED <<sessionVars, timedOut>>
    /\ unchangedBySSH

\* server.go:214-215: a second passes while a call is in the loop; the
\* ticker holds at most one tick.
Tick ==
    /\ \E r \in RunCmds : ssh[r] = "select"
    /\ elapsed' = IF elapsed < sshTimeOut THEN elapsed + 1 ELSE elapsed
    /\ tickReady' = TRUE
    /\ UNCHANGED <<sshclient, ssh, ticks, sessionVars, gotClient, sshRet, dialled, timedOut,
                   mutex, runCmdVars>>
    /\ unchangedBySSH

\* server.go:220-236: the select takes the ticker's case and dials again.
\* A connection error goes round again uncounted; any other outcome is
\* counted, and the loop ends on success or on the 45th.
DialAgain(r, d) ==
    /\ ssh[r] = "select"
    /\ tickReady
    /\ IF d = "ok"
         THEN /\ sshclient' = r
              /\ SSHClientReturns(r, r, "nil")
         ELSE IF d = "other" /\ ticks + 1 = MaxTicks
         THEN /\ sshclient' = 0
              /\ SSHClientReturns(r, 0, "other")
         ELSE /\ sshclient' = 0
              /\ ticks' = IF d = "other" THEN ticks + 1 ELSE ticks
              /\ tickReady' = FALSE
              /\ UNCHANGED <<mutex, elapsed, ssh, gotClient, sshRet, rc, err, ret, sessionOpen>>
    /\ UNCHANGED <<sessionVars, dialled, timedOut>>
    /\ unchangedBySSH

LimitReady_Never == FALSE

\* server.go:214: limit delivers once sshTimeOut has passed.
LimitReady == elapsed >= sshTimeOut

\* server.go:238-241, 245-247: the select takes limit's case and the call
\* gives up.
GiveUp(r) ==
    /\ ssh[r] = "select"
    /\ LimitReady
    /\ SSHClientReturns(r, 0, "giving up")
    /\ UNCHANGED <<sshclient, sessionVars, dialled, timedOut>>
    /\ unchangedBySSH

unchangedBySession ==
    /\ UNCHANGED <<sshclient, dialVars, gotClient, dialled, mutex>>
    /\ unchangedBySSH

\* server.go:266-288: SSHSession makes its channels and starts the timer
\* goroutine and the goroutine that opens the session; it then waits on
\* done.
SSHSessionStart(r) ==
    /\ ssh[r] = "client"
    /\ ssh' = [ssh EXCEPT ![r] = "waitDone"]
    /\ timerG' = [timerG EXCEPT ![r] = "select"]
    /\ openerG' = [openerG EXCEPT ![r] = "newSession"]
    /\ UNCHANGED <<sdone, worked, madeSession, sessionsMade, sshRet, timedOut, runCmdVars>>
    /\ unchangedBySession

TimerFires_Never(r) == FALSE

\* server.go:271: the select takes the case of the 5-second timer, which
\* may fire at any moment.
TimerFires(r) ==
    /\ timerG[r] = "select"
    /\ timerG' = [timerG EXCEPT ![r] = "sendDone"]
    /\ UNCHANGED <<ssh, openerG, sdone, worked, madeSession, sessionsMade, sshRet, timedOut,
                   runCmdVars>>
    /\ unchangedBySession

\* server.go:274-275: the select receives from worked and the goroutine
\* ends.
TimerWorked(r) ==
    /\ timerG[r] = "select"
    /\ worked[r] > 0
    /\ worked' = [worked EXCEPT ![r] = @ - 1]
    /\ timerG' = [timerG EXCEPT ![r] = "end"]
    /\ UNCHANGED <<ssh, openerG, sdone, madeSession, sessionsMade, sshRet, timedOut,
                   runCmdVars>>
    /\ unchangedBySession

\* server.go:273: the timer goroutine sends its error once done has room.
TimerSendDone(r) ==
    /\ timerG[r] = "sendDone"
    /\ Len(sdone[r]) < SessionChCap
    /\ sdone' = [sdone EXCEPT ![r] = Append(@, "timed out")]
    /\ timerG' = [timerG EXCEPT ![r] = "end"]
    /\ timedOut' = [timedOut EXCEPT ![r] = openerG[r] = "newSession"]
    /\ UNCHANGED <<ssh, openerG, worked, madeSession, sessionsMade, sshRet, runCmdVars>>
    /\ unchangedBySession

\* server.go:279-280: NewSession returns, with a new session of the client
\* or with an error.  Nothing obliges it to return.
OpenerNewSession(r, ok) ==
    /\ openerG[r] = "newSession"
    /\ IF ok
         THEN /\ sessionsMade' = sessionsMade + 1
              /\ madeSession' = [madeSession EXCEPT
                                    ![r] = [client |-> gotClient[r], n |-> sessionsMade + 1]]
              /\ openerG' = [openerG EXCEPT ![r] = "sendWorked"]
         ELSE /\ openerG' = [openerG EXCEPT ![r] = "sendFailed"]
              /\ UNCHANGED <<sessionsMade, madeSession>>
    /\ UNCHANGED <<ssh, timerG, sdone, worked, sshRet, timedOut, runCmdVars>>
    /\ unchangedBySession

\* server.go:282-283: the goroutine sends NewSession's error and ends.
OpenerSendFailed(r) ==
    /\ openerG[r] = "sendFailed"
    /\ Len(sdone[r]) < SessionChCap
    /\ sdone' = [sdone EXCEPT ![r] = Append(@, "failed")]
    /\ openerG' = [openerG EXCEPT ![r] = "end"]
    /\ UNCHANGED <<ssh, timerG, worked, madeSession, sessionsMade, sshRet, timedOut,
                   runCmdVars>>
    /\ unchangedBySession

\* server.go:285
OpenerSendWorked(r) ==
    /\ openerG[r] = "sendWorked"
    /\ worked[r] < SessionChCap
    /\ worked' = [worked EXCEPT ![r] = @ + 1]
    /\ openerG' = [openerG EXCEPT ![r] = "sendDone"]
    /\ UNCHANGED <<ssh, timerG, sdone, madeSession, sessionsMade, sshRet, timedOut,
                   runCmdVars>>
    /\ unchangedBySession

\* server.go:286
OpenerSendDone(r) ==
    /\ openerG[r] = "sendDone"
    /\ Len(sdone[r]) < SessionChCap
    /\ sdone' = [sdone EXCEPT ![r] = Append(@, "nil")]
    /\ openerG' = [openerG EXCEPT ![r] = "sendSession"]
    /\ UNCHANGED <<ssh, timerG, worked, madeSession, sessionsMade, sshRet, timedOut,
                   runCmdVars>>
    /\ unchangedBySession

\* server.go:290-293: SSHSession receives from done, and returns the error
\* if it is one.
SSHSessionDone(r) ==
    /\ ssh[r] = "waitDone"
    /\ sdone[r] # <<>>
    /\ sdone' = [sdone EXCEPT ![r] = Tail(@)]
    /\ IF Head(sdone[r]) = "nil"
         THEN /\ ssh' = [ssh EXCEPT ![r] = "recvSession"]
              /\ UNCHANGED <<sshRet, runCmdVars>>
         ELSE /\ SSHSessionReturns(r, NoSession, Head(sdone[r]))
              /\ UNCHANGED <<watcher, runner, cancelCh, finished, done, outCh>>
    /\ UNCHANGED <<timerG, openerG, worked, madeSession, sessionsMade, timedOut>>
    /\ UNCHANGED <<sshclient, dialVars, gotClient, dialled, mutex, flavorVars, otherVars, usedVars,
                   badVars, deathrowVars, registryVars, destroyed, historyVars>>

\* server.go:287, 294: sessionCh has no buffer, so the goroutine's send and
\* SSHSession's receive happen together; SSHSession returns the session.
OpenerSendSession(r) ==
    /\ openerG[r] = "sendSession"
    /\ ssh[r] = "recvSession"
    /\ openerG' = [openerG EXCEPT ![r] = "end"]
    /\ SSHSessionReturns(r, madeSession[r], "nil")
    /\ UNCHANGED <<timerG, sdone, worked, madeSession, sessionsMade, timedOut>>
    /\ unchangedBySession

SSHStep(r) ==
    \/ \E k \in Keys, d \in Dials : SSHClientCall(r, k, d)
    \/ \E d \in Dials : DialAgain(r, d)
    \/ GiveUp(r)
    \/ SSHSessionStart(r)
    \/ TimerFires(r)
    \/ TimerWorked(r)
    \/ TimerSendDone(r)
    \/ \E ok \in BOOLEAN : OpenerNewSession(r, ok)
    \/ OpenerSendFailed(r)
    \/ OpenerSendWorked(r)
    \/ OpenerSendDone(r)
    \/ SSHSessionDone(r)
    \/ OpenerSendSession(r)

NextSSH ==
    \/ \E r \in RunCmds : SSHStep(r)
    \/ Tick

\* A host of a provider, which holds the key (server.go:188 reads it).
InitSSH == NewServer([Cores |-> 2, RAM |-> 2], 2, 0, TRUE)

SpecSSH == InitSSH /\ [][NextSSH]_vars

\* Time passes, and Go's select takes a case that stays ready: limit's case
\* is taken in the end.  Goroutines that can run do, and the 5-second
\* timer fires.  Nothing obliges ssh.Dial to succeed or NewSession to
\* return.
FairSpecSSH ==
    /\ SpecSSH
    /\ WF_vars(Tick)
    /\ \A r \in RunCmds :
          /\ WF_vars(GiveUp(r))
          /\ WF_vars(SSHSessionStart(r))
          /\ WF_vars(TimerFires(r))
          /\ WF_vars(TimerSendDone(r))
          /\ WF_vars(OpenerSendFailed(r))
          /\ WF_vars(OpenerSendWorked(r))
          /\ WF_vars(OpenerSendDone(r))
          /\ WF_vars(OpenerSendSession(r))
          /\ WF_vars(SSHSessionDone(r))

\* ----------------------------------------------------------------- RunCmd

unchangedByRunCmd ==
    UNCHANGED <<flavorVars, otherVars, sshVars, usedVars, badVars, deathrowVars, destroyed, allocDuring,
                destroyedBy, idleReleased, destroyRet, providerCalls, atDestroy, hsf,
                tally, lastBadCall, providerSaid>>

\* server.go:301-305: the call obtains a session, or returns SSHSession's
\* error.  Calls are numbered in the order they start.
RunCmdSession(r, ok) ==
    /\ rc[r] = "idle"
    /\ \A q \in RunCmds : q < r => rc[q] # "idle"
    /\ IF ok
         THEN /\ rc' = [rc EXCEPT ![r] = "session"]
              /\ sessionOpen' = [sessionOpen EXCEPT ![r] = TRUE]
              /\ UNCHANGED <<err, ret>>
         ELSE /\ rc' = [rc EXCEPT ![r] = "returned"]
              /\ err' = [err EXCEPT ![r] = "sessionErr"]
              /\ ret' = [ret EXCEPT ![r] = [err |-> "sessionErr", out |-> FALSE, got |-> "none"]]
              /\ UNCHANGED sessionOpen
    /\ UNCHANGED <<mutex, registryVars, watcher, runner, cancelCh, finished, done, outCh,
                   signals, registeredAs>>
    /\ unchangedByRunCmd

\* server.go:309-357: under the mutex the call takes a fresh cancelID,
\* registers cancelCh under it, makes its channels and starts both
\* goroutines.
RunCmdRegister(r) ==
    /\ rc[r] = "session"
    /\ mutex = "free"
    /\ cancelID' = cancelID + 1
    /\ cancelRunCmd' = [id \in DOMAIN cancelRunCmd \cup {cancelID} |->
                          IF id = cancelID THEN r ELSE cancelRunCmd[id]]
    /\ watcher' = [watcher EXCEPT ![r] = "select"]
    /\ runner' = [runner EXCEPT ![r] = "run"]
    /\ rc' = [rc EXCEPT ![r] = "waitDone"]
    /\ registeredAs' = [registeredAs EXCEPT ![r] = cancelID]
    /\ UNCHANGED <<mutex, cancelCh, finished, done, outCh, err, sessionOpen, ret, signals>>
    /\ unchangedByRunCmd

\* server.go:320: the select receives the cancellation Destroy sent.
WatcherCancelled(r) ==
    /\ watcher[r] = "select"
    /\ cancelCh[r].buf > 0
    /\ cancelCh' = [cancelCh EXCEPT ![r].buf = @ - 1]
    /\ watcher' = [watcher EXCEPT ![r] = "sendDone"]
    /\ UNCHANGED <<mutex, registryVars, rc, runner, finished, done, outCh, err,
                   sessionOpen, ret, signals, registeredAs>>
    /\ unchangedByRunCmd

\* server.go:321: the cancellation error is sent on done.
WatcherSendDone(r) ==
    /\ watcher[r] = "sendDone"
    /\ Len(done[r]) < CancelChCap
    /\ done' = [done EXCEPT ![r] = Append(@, "cancelled")]
    /\ watcher' = [watcher EXCEPT ![r] = "lock"]
    /\ UNCHANGED <<mutex, registryVars, rc, runner, cancelCh, finished, outCh, err,
                   sessionOpen, ret, signals, registeredAs>>
    /\ unchangedByRunCmd

\* server.go:322: the select receives from finished.
WatcherFinished(r) ==
    /\ watcher[r] = "select"
    /\ finished[r] > 0
    /\ finished' = [finished EXCEPT ![r] = @ - 1]
    /\ watcher' = [watcher EXCEPT ![r] = "lock"]
    /\ UNCHANGED <<mutex, registryVars, rc, runner, cancelCh, done, outCh, err,
                   sessionOpen, ret, signals, registeredAs>>
    /\ unchangedByRunCmd

\* CleanupLocks, had the goroutine closed and deleted without taking the
\* mutex.
CleanupLocks_NoLock == TRUE

\* server.go:325: s.mutex.Lock() returns once nobody holds the mutex.
CleanupLocks == mutex = "free"

\* server.go:325-328: under the mutex the channel is closed and its entry
\* deleted.
WatcherCleanup(r) ==
    /\ watcher[r] = "lock"
    /\ CleanupLocks
    /\ cancelCh' = [cancelCh EXCEPT ![r].closed = TRUE]
    /\ cancelRunCmd' = [id \in {i \in DOMAIN cancelRunCmd : cancelRunCmd[i] # r} |->
                          cancelRunCmd[id]]
    /\ watcher' = [watcher EXCEPT ![r] = "end"]
    /\ UNCHANGED <<mutex, cancelID, rc, runner, finished, done, outCh, err, sessionOpen,
                   ret, signals, registeredAs>>
    /\ unchangedByRunCmd

\* server.go:339: session.Run returns, with nil or with an error (only with
\* an error once the session has been closed), and the goroutine assigns the
\* result to err, the named result of RunCmd.
RunnerRun(r, e) ==
    /\ runner[r] = "run"
    /\ e \in (IF sessionOpen[r] THEN {"nil", "runErr"} ELSE {"runErr"})
    /\ err' = [err EXCEPT ![r] = e]
    /\ runner' = [runner EXCEPT ![r] = "sendFinished"]
    /\ UNCHANGED <<mutex, registryVars, rc, watcher, cancelCh, finished, done, outCh,
                   sessionOpen, ret, signals, registeredAs>>
    /\ unchangedByRunCmd

\* server.go:340
RunnerSendFinished(r) ==
    /\ runner[r] = "sendFinished"
    /\ finished[r] < CancelChCap
    /\ finished' = [finished EXCEPT ![r] = @ + 1]
    /\ runner' = [runner EXCEPT ![r] = "sendOut"]
    /\ UNCHANGED <<mutex, registryVars, rc, watcher, cancelCh, done, outCh, err,
                   sessionOpen, ret, signals, registeredAs>>
    /\ unchangedByRunCmd

\* server.go:341-350: stdout is sent on outCh and stderr on errCh.  Both
\* channels buffer one value and have this single sender, so neither send
\* blocks, and the only receiver takes them in the same order: the two sends
\* are one step.
RunnerSendOutputs(r) ==
    /\ runner[r] = "sendOut"
    /\ outCh[r] < CancelChCap
    /\ outCh' = [outCh EXCEPT ![r] = @ + 1]
    /\ runner' = [runner EXCEPT ![r] = "sendDone"]
    /\ UNCHANGED <<mutex, registryVars, rc, watcher, cancelCh, finished, done, err,
                   sessionOpen, ret, signals, registeredAs>>
    /\ unchangedByRunCmd

\* server.go:351-355: the goroutine reads err again and sends the wrapped
\* error, or nil, on done.
RunnerSendDone(r) ==
    /\ runner[r] = "sendDone"
    /\ Len(done[r]) < CancelChCap
    /\ done' = [done EXCEPT ![r] = Append(@, IF err[r] # "nil" THEN "failed" ELSE "nil")]
    /\ runner' = [runner EXCEPT ![r] = "end"]
    /\ UNCHANGED <<mutex, registryVars, rc, watcher, cancelCh, finished, outCh, err,
                   sessionOpen, ret, signals, registeredAs>>
    /\ unchangedByRunCmd

\* server.go:359: err = <-done.  ret[r].got keeps the value received.
RunCmdDone(r) ==
    /\ rc[r] = "waitDone"
    /\ done[r] # <<>>
    /\ err' = [err EXCEPT ![r] = Head(done[r])]
    /\ ret' = [ret EXCEPT ![r].got = Head(done[r])]
    /\ done' = [done EXCEPT ![r] = Tail(@)]
    /\ rc' = [rc EXCEPT ![r] = "check"]
    /\ UNCHANGED <<mutex, registryVars, watcher, runner, cancelCh, finished, outCh,
                   sessionOpen, signals, registeredAs>>
    /\ unchangedByRunCmd

\* server.go:360: if err == nil
RunCmdCheck(r) ==
    /\ rc[r] = "check"
    /\ rc' = [rc EXCEPT ![r] = IF err[r] = "nil" THEN "recvOut" ELSE "return"]
    /\ UNCHANGED <<mutex, registryVars, watcher, runner, cancelCh, finished, done, outCh,
                   err, sessionOpen, ret, signals, registeredAs>>
    /\ unchangedByRunCmd

\* server.go:361-362: stdout = <-outCh; stderr = <-errCh
RunCmdOutputs(r) ==
    /\ rc[r] = "recvOut"
    /\ outCh[r] > 0
    /\ outCh' = [outCh EXCEPT ![r] = @ - 1]
    /\ ret' = [ret EXCEPT ![r].out = TRUE]
    /\ rc' = [rc EXCEPT ![r] = "return"]
    /\ UNCHANGED <<mutex, registryVars, watcher, runner, cancelCh, finished, done, err,
                   sessionOpen, signals, registeredAs>>
    /\ unchangedByRunCmd

\* server.go:364 and :305: the call returns the value err has now, and the
\* deferred session.Close() runs.
RunCmdReturn(r) ==
    /\ rc[r] = "return"
    /\ ret' = [ret EXCEPT ![r].err = err[r]]
    /\ sessionOpen' = [sessionOpen EXCEPT ![r] = FALSE]
    /\ rc' = [rc EXCEPT ![r] = "returned"]
    /\ UNCHANGED <<mutex, registryVars, watcher, runner, cancelCh, finished, done, outCh,
                   err, signals, registeredAs>>
    /\ unchangedByRunCmd

\* The steps of RunCmd call r and of its two goroutines.
RunCmdStep(r) ==
    \/ \E ok \in BOOLEAN : RunCmdSession(r, ok)
    \/ RunCmdRegister(r)
    \/ WatcherCancelled(r)
    \/ WatcherSendDone(r)
    \/ WatcherFinished(r)
    \/ WatcherCleanup(r)
    \/ \E e \in {"nil", "runErr"} : RunnerRun(r, e)
    \/ RunnerSendFinished(r)
    \/ RunnerSendOutputs(r)
    \/ RunnerSendDone(r)
    \/ RunCmdDone(r)
    \/ RunCmdCheck(r)
    \/ RunCmdOutputs(r)
    \/ RunCmdReturn(r)

InitRunCmd ==
    \E prov \in BOOLEAN : NewServer([Cores |-> 2, RAM |-> 2], 2, 0, prov)

NextRunCmd ==
    \/ \E r \in RunCmds : RunCmdStep(r)
    \/ ClientDestroy

\* RunCmd calls and Destroy calls on a host nobody allocates on.
SpecRunCmd == InitRunCmd /\ [][NextRunCmd]_vars

\* ------------------------------------------------------------ HasSpaceFor

\* Go's integer division truncates toward zero (b > 0 here).
GoDiv(a, b) == IF a >= 0 THEN a \div b ELSE -((-a) \div b)

\* server.go:157-180.  The result is [panic, n]: the division of line 163 is
\* a run-time panic (integer divide by zero) when cores is 0.
HasSpaceFor(cores, ramMB, diskGB) ==
    IF \/ Flavor.Cores - usedCores < cores
       \/ Flavor.RAM - usedRAM < ramMB
       \/ Disk - usedDisk < diskGB
      THEN [panic |-> FALSE, n |-> 0]
      ELSE IF cores = 0
             THEN [panic |-> TRUE, n |-> 0]
             ELSE LET canDo == GoDiv(Flavor.Cores - usedCores, cores)
                      byRAM == IF ramMB > 0 /\ GoDiv(Flavor.RAM - usedRAM, ramMB) < canDo
                                 THEN GoDiv(Flavor.RAM - usedRAM, ramMB)
                                 ELSE canDo
                      byDisk == IF diskGB > 0 /\ GoDiv(Disk - usedDisk, diskGB) < byRAM
                                  THEN GoDiv(Disk - usedDisk, diskGB)
                                  ELSE byRAM
                  IN  [panic |-> FALSE, n |-> IF canDo > 1 THEN byDisk ELSE canDo]

\* A caller asks HasSpaceFor (it takes the read lock).
HasSpaceForCall(cores, ramMB, diskGB) ==
    /\ mutex = "free"
    /\ hsf' = [called |-> TRUE, cores |-> cores, ramMB |-> ramMB, diskGB |-> diskGB,
               ret |-> HasSpaceFor(cores, ramMB, diskGB)]
    /\ UNCHANGED <<flavorVars, otherVars, sshVars, usedVars, badVars, deathrowVars, registryVars, destroyed,
                   mutex, runCmdVars, allocDuring, destroyedBy, idleReleased, destroyRet,
                   providerCalls, signals, atDestroy,
                   tally, lastBadCall, providerSaid, registeredAs>>

\* A host that is never destroyed for being idle (TTD = 0), with room for two
\* of the largest job in every dimension.
InitPlacement ==
    NewServer([Cores |-> 2 * MaxReq, RAM |-> 2 * MaxReq], 2 * MaxReq, 0, TRUE)

NextPlacement ==
    \/ \E cores \in Reqs, ramMB \in Reqs, diskGB \in Reqs : Allocate(cores, ramMB, diskGB)
    \/ \E cores \in Reqs, ramMB \in Reqs, diskGB \in Reqs : Release(cores, ramMB, diskGB)
    \/ \E cores \in Reqs, ramMB \in Reqs, diskGB \in Reqs : HasSpaceForCall(cores, ramMB, diskGB)

SpecPlacement == InitPlacement /\ [][NextPlacement]_vars

\* Capacities as [Cores, RAM, Disk]: the host of the placement scenario (4
\* cores, 16GB of RAM counted in units of 4GB, 100GB of disk in units of
\* 10GB) and the small host of Init.
CopiesFlavors ==
    {[Cores |-> 4, RAM |-> 4, Disk |-> 10], [Cores |-> 2, RAM |-> 2, Disk |-> 2]}

\* Requirements that are positive in every dimension.
PositiveJobs == {<<c, r, d>> : c \in 1..MaxReq, r \in 1..MaxReq, d \in 1..MaxReq}

InitCopies ==
    \E cap \in CopiesFlavors, job \in PositiveJobs :
        NewServerObserving([Cores |-> cap.Cores, RAM |-> cap.RAM], cap.Disk, 0, TRUE, job)

\* One more copy of the observed job is placed.
PlaceCopy ==
    /\ tally.allocs < MaxAllocs
    /\ Allocate(tally.job[1], tally.job[2], tally.job[3])

\* A copy of the observed job that was placed is released.
ReleaseCopy ==
    /\ tally.releases < tally.allocs
    /\ Release(tally.job[1], tally.job[2], tally.job[3])

\* The scheduler asks how many copies of the observed job fit.
CountCopies == HasSpaceForCall(tally.job[1], tally.job[2], tally.job[3])

NextCopies == PlaceCopy \/ ReleaseCopy \/ CountCopies

\* The only calls are Allocate, Release and HasSpaceFor for one job, and no
\* copy is released that was not placed.
SpecCopies == InitCopies /\ [][NextCopies]_vars

\* ------------------------------------------------- further specifications

\* A host in use, never idle long enough to be destroyed for it (TTD = 0),
\* that is marked bad, unmarked and destroyed.
NextBad ==
    \/ \E job \in Jobs : Allocate(job[1], job[2], job[3])
    \/ \E job \in Jobs : Release(job[1], job[2], job[3])
    \/ \E args \in Problems : GoneBad(args)
    \/ NotBad
    \/ ClientDestroy

SpecBad == InitRunCmd /\ [][NextBad]_vars

\* A host with an idle time limit and a provider.
InitHost == NewServer([Cores |-> 2, RAM |-> 2], 2, 1, TRUE)

\* One RunCmd call on a host on which calls that need no resources are
\* allocated and released (the host stays idle), and which the idle
\* countdown destroys.
NextHost ==
    \/ Allocate(0, 0, 0)
    \/ AllocateResume
    \/ Release(0, 0, 0)
    \/ \E g \in Countdowns : CountdownStep(g)
    \/ RunCmdStep(1)

SpecHost == InitHost /\ [][NextHost]_vars

\* A host with an idle time limit on which the calls for one job are counted.
InitLifecycle == NewServerObserving([Cores |-> 2, RAM |-> 2], 2, 1, TRUE, <<1, 1, 1>>)

\* The job is placed on the host, once.
PlaceOnce ==
    /\ tally.allocs = 0
    /\ Allocate(tally.job[1], tally.job[2], tally.job[3])

\* The steps of the idle-destruction goroutine g on a host whose
\* cancelDestruction channel never fills up.
CountdownRun(g) ==
    \/ CountdownStart(g)
    \/ CountdownCancelled(g)
    \/ CountdownTimeToDie(g)
    \/ CountdownClearCancelled(g)
    \/ CountdownClearFired(g)
    \/ CountdownDestroy(g)

\* The life of a host that is given one job: the job is placed, a command is
\* run, the job is released, the idle countdown runs, and at any moment the
\* host is marked bad, unmarked or destroyed.
NextLifecycle ==
    \/ PlaceOnce
    \/ ReleaseCopy
    \/ \E g \in Countdowns : CountdownRun(g)
    \/ \E args \in Problems : GoneBad(args)
    \/ NotBad
    \/ RunCmdStep(1)
    \/ ClientDestroy

SpecLifecycle == InitLifecycle /\ [][NextLifecycle]_vars

\* RunCmd's SSHSession calls on a host that a caller may destroy at any
\* moment.
NextTeardown ==
    \/ \E r \in RunCmds : SSHStep(r)
    \/ Tick
    \/ ClientDestroy

SpecTeardown == InitSSH /\ [][NextTeardown]_vars

\* ------------------------------------------- package queue: the sub-queue

Before_ByKey(it, q, a, b) == a < b

\* The order of a sub-queue: the delay queue by ready-at, the ready queue by
\* priority (highest first) and then creation, the run queue by release
\* deadline, the others by key; equal items in the order they were pushed.
Before(it, q, a, b) ==
    LET first == it[a].pushed < it[b].pushed
    IN  CASE q = "delay" ->
               \/ it[a].readyAt < it[b].readyAt
               \/ it[a].readyAt = it[b].readyAt /\ first
          [] q = "ready" ->
               \/ it[a].priority > it[b].priority
               \/ /\ it[a].priority = it[b].priority
                  /\ \/ it[a].created < it[b].created
                     \/ it[a].created = it[b].created /\ first
          [] q = "run" ->
               \/ it[a].releaseAt < it[b].releaseAt
               \/ it[a].releaseAt = it[b].releaseAt /\ first
          [] OTHER -> a < b

Swap(h, i, j) == [h EXCEPT ![i] = h[j], ![j] = h[i]]

\* The heap's sift-up of the item at j.
RECURSIVE Up(_, _, _, _)
Up(it, q, h, j) ==
    IF j = 1 \/ ~Before(it, q, h[j], h[j \div 2])
      THEN h
      ELSE Up(it, q, Swap(h, j \div 2, j), j \div 2)

\* The heap's sift-down of the item at i among the first n.
RECURSIVE Down(_, _, _, _, _)
Down(it, q, h, i, n) ==
    IF 2 * i > n
      THEN h
      ELSE LET j == IF 2 * i + 1 <= n /\ Before(it, q, h[2 * i + 1], h[2 * i])
                      THEN 2 * i + 1
                      ELSE 2 * i
           IN  IF ~Before(it, q, h[j], h[i])
                 THEN h
                 ELSE Down(it, q, Swap(h, i, j), j, n)

IndexOf(h, k) == CHOOSE i \in 1 .. Len(h) : h[i] = k

Pushed_Appends(it, q, h, k) == Append(h, k)

\* push
Pushed(it, q, h, k) == Up(it, q, Append(h, k), Len(h) + 1)

\* pop-min: the last item takes the head's place and sinks.
Popped(it, q, h) ==
    SubSeq(Down(it, q, Swap(h, 1, Len(h)), 1, Len(h) - 1), 1, Len(h) - 1)

Removed_DropsLast(it, q, h, i) == SubSeq(h, 1, Len(h) - 1)

\* remove-by-reference: the last item takes the place of the removed one
\* and sinks or rises.
Removed(it, q, h, i) ==
    LET n == Len(h)
        h1 == Swap(h, i, n)
        h2 == Down(it, q, h1, i, n - 1)
        h3 == IF h2 = h1 THEN Up(it, q, h1, i) ELSE h2
    IN  IF i = n THEN SubSeq(h, 1, n - 1) ELSE SubSeq(h3, 1, n - 1)

Fixed_SinksOnly(it, q, h, i) == Down(it, q, h, i, Len(h))

\* update-by-reference: the item sinks or rises from where it is.
Fixed(it, q, h, i) ==
    LET h2 == Down(it, q, h, i, Len(h))
    IN  IF h2 = h THEN Up(it, q, h, i) ELSE h2

unchangedByQueue == UNCHANGED <<serverVars, mqVars, k8sVars, killVars, rewriteVars>>

\* An item that has left the queue.
Gone(how) == [NoItem EXCEPT !.tag = how]

\* delay_queue_test.go:32-36: newItem with a delay, and push.
SubQueuePush(k, delay) ==
    /\ item[k].tag = "none"
    /\ pushSeq' = pushSeq + 1
    /\ item' = [item EXCEPT ![k] = [NoItem EXCEPT !.tag = "delay", !.readyAt = delay,
                                                  !.pushed = pushSeq + 1]]
    /\ subq' = [subq EXCEPT !.delay = Pushed(item', "delay", @, k)]
    /\ UNCHANGED <<pops, popRet, lastUpdated>>
    /\ unchangedByQueue

\* delay_queue_test.go:45, 57: pop returns the head, or nil.
SubQueuePop ==
    /\ IF subq.delay = <<>>
         THEN /\ popRet' = Nil
              /\ UNCHANGED <<subq, item, pops, lastUpdated>>
         ELSE /\ popRet' = subq.delay[1]
              /\ pops' = Append(pops, subq.delay[1])
              /\ item' = [item EXCEPT ![subq.delay[1]] = Gone("popped")]
              /\ UNCHANGED lastUpdated
              /\ subq' = [subq EXCEPT !.delay = Popped(item, "delay", @)]
    /\ UNCHANGED pushSeq
    /\ unchangedByQueue

\* delay_queue_test.go:63
SubQueueRemove(k) ==
    /\ item[k].tag = "delay"
    /\ item' = [item EXCEPT ![k] = Gone("removed")]
    /\ UNCHANGED lastUpdated
    /\ subq' = [subq EXCEPT !.delay = Removed(item, "delay", @, IndexOf(@, k))]
    /\ UNCHANGED <<pushSeq, pops, popRet>>
    /\ unchangedByQueue

\* delay_queue_test.go:78-79: the caller changes readyAt and calls update.
SubQueueUpdate(k, t) ==
    /\ item[k].tag = "delay"
    /\ item[k].readyAt # t
    /\ item' = [item EXCEPT ![k].readyAt = t]
    /\ lastUpdated' = k
    /\ subq' = [subq EXCEPT !.delay = Fixed(item', "delay", @, IndexOf(@, k))]
    /\ UNCHANGED <<pushSeq, pops, popRet>>
    /\ unchangedByQueue

\* delay_queue_test.go:38: Len
SubQueueLen == Len(subq.delay)

Times == 1 .. MaxTime

InitQueue == NewServer([Cores |-> 2, RAM |-> 2], 2, 0, FALSE)

\* The keys are names: they are used in order.
PushNext(k, t) ==
    /\ k < MaxItems
    /\ \A j \in ItemKeys : j < k => item[j].tag # "none"
    /\ SubQueuePush(k, t)

NextSubQueue ==
    \/ \E k \in ItemKeys, t \in Times : PushNext(k, t)
    \/ SubQueuePop
    \/ \E k \in ItemKeys : SubQueueRemove(k)
    \/ \E k \in ItemKeys, t \in Times : SubQueueUpdate(k, t)

SpecSubQueue == InitQueue /\ [][NextSubQueue]_vars

\* delay_queue_test.go:31-37: key_i has a delay of 9 - i + 1 seconds; times
\* are in half seconds.
TestKeys == 0 .. TestItems - 1
TestDelay(i) == 2 * (9 - i + 1)

\* The test pushes key_0 first and goes up; here the ten are pushed going
\* up or down from any one of them.
LastPushed(i) == item[i].pushed = pushSeq
Neighbours(i, j) == j = (i + 1) % TestItems \/ i = (j + 1) % TestItems

TestPush(i) ==
    /\ i \in TestKeys
    /\ pushSeq = 0 \/ \E j \in TestKeys : LastPushed(j) /\ Neighbours(i, j)
    /\ SubQueuePush(i, TestDelay(i))

AllPushed == \A i \in TestKeys : item[i].tag # "none"

\* delay_queue_test.go:44-58, 66-71, 80: the pops of the test, the last of
\* which returns nil.
TestPop ==
    /\ AllPushed
    /\ popRet # Nil
    /\ SubQueuePop

\* delay_queue_test.go:62-63: the test removes key_2; here any one item.
TestRemove(k) ==
    /\ AllPushed
    /\ \A i \in TestKeys : item[i].tag # "removed"
    /\ SubQueueRemove(k)

\* delay_queue_test.go:77-79: the test moves key_9 to 2.5 seconds from
\* now; here any one item, to before, between or after the others.
TestTimes == {1, 5, 21}

TestUpdate(k, t) ==
    /\ AllPushed
    /\ lastUpdated = Nil
    /\ SubQueueUpdate(k, t)

NextDelayTest ==
    \/ \E i \in ItemKeys : TestPush(i)
    \/ TestPop
    \/ \E k \in ItemKeys : TestRemove(k)
    \/ \E k \in ItemKeys, t \in TestTimes : TestUpdate(k, t)

SpecDelayTest == InitQueue /\ [][NextDelayTest]_vars

\* ---------------------------------- package queue: the multi-state queue

unchangedByMultiQueue ==
    UNCHANGED <<serverVars, k8sVars, killVars, rewriteVars, pops, popRet, lastUpdated>>

JobKeys == 0 .. MaxJobs - 1
Priorities == {0, 1}
Delays == {0, 1}

InQueue(k) == item[k].tag \in SubQueues

\* Where an item goes when it is inserted or stops waiting: to depend while
\* it waits for other items, else to delay when it has a delay, else to ready.
Entry(waits, delay) ==
    IF waits # {} THEN "depend" ELSE IF delay > 0 THEN "delay" ELSE "ready"

\* An item as it enters sub-queue q as the n-th of those q holds;
\* ready-at matters in delay only, the release deadline in run only.
Entering(rec, q, delay, n) ==
    [rec EXCEPT !.tag = q,
                !.readyAt = IF q = "delay" THEN now + delay ELSE 0,
                !.releaseAt = IF q = "run" THEN now + TTR ELSE 0,
                !.pushed = n]

\* The items once k has left its sub-queue: `pushed` is an item's place in
\* the insertion order of the items its sub-queue holds.
Left(it, k) ==
    [j \in ItemKeys |->
        IF j # k /\ it[j].tag = it[k].tag /\ it[j].pushed > it[k].pushed
          THEN [it[j] EXCEPT !.pushed = @ - 1]
          ELSE it[j]]

Moved_Copies(it, sq, k, from, to) ==
    [sq EXCEPT ![to] = Pushed(it, to, @, k)]

\* The sub-queues once item k has left `from` and been pushed onto `to`.
Moved(it, sq, k, from, to) ==
    [sq EXCEPT ![from] = Removed(it, from, @, IndexOf(@, k)),
               ![to] = Pushed(it, to, @, k)]

\* Item k goes from the sub-queue it is in to another sub-queue `to`.
Transition(k, to, delay) ==
    /\ item' = [Left(item, k) EXCEPT ![k] = Entering(@, to, delay, Len(subq[to]) + 1)]
    /\ subq' = Moved(item', subq, k, item[k].tag, to)
    /\ UNCHANGED pushSeq

\* Add: a new key is inserted.  The keys are names: the first one free is
\* used.
QueueAdd(k, p, d, ds) ==
    /\ ~InQueue(k)
    /\ \A j \in JobKeys : j < k => InQueue(j)
    /\ added < MaxAdds
    /\ k \notin ds
    /\ LET waits == {j \in ds : InQueue(j)}
           q == Entry(waits, d)
       IN  /\ deps' = [deps EXCEPT ![k] = waits]
           /\ item' = [item EXCEPT ![k] =
                 Entering([NoItem EXCEPT !.priority = p, !.created = now], q, d,
                          Len(subq[q]) + 1)]
           /\ subq' = [subq EXCEPT ![q] = Pushed(item', q, @, k)]
           /\ delayOf' = [delayOf EXCEPT ![k] = IF q = "depend" THEN d ELSE 0]
    /\ added' = added + 1
    /\ UNCHANGED <<pushSeq, deleted, now>>
    /\ unchangedByMultiQueue

\* Time passes.
QueueTick ==
    /\ now < MaxNow
    /\ now' = now + 1
    /\ UNCHANGED <<subq, item, pushSeq, deps, delayOf, added, deleted>>
    /\ unchangedByMultiQueue

\* delay elapsed: the head of the delay queue, once due, moves to ready.
DelayElapsed ==
    /\ subq.delay # <<>>
    /\ item[subq.delay[1]].readyAt <= now
    /\ Transition(subq.delay[1], "ready", 0)
    /\ UNCHANGED mqVars
    /\ unchangedByMultiQueue

\* Reserve: the head of the ready queue is given a release deadline and
\* placed into run; with nothing ready the call waits.
QueueReserve ==
    /\ subq.ready # <<>>
    /\ Transition(subq.ready[1], "run", 0)
    /\ UNCHANGED mqVars
    /\ unchangedByMultiQueue

\* Touch: the release deadline of a reserved item starts again.
QueueTouch(k) ==
    /\ item[k].tag = "run"
    /\ item[k].releaseAt # now + TTR
    /\ item' = [item EXCEPT ![k].releaseAt = now + TTR]
    /\ subq' = [subq EXCEPT !.run = Fixed(item', "run", @, IndexOf(@, k))]
    /\ UNCHANGED <<pushSeq, mqVars>>
    /\ unchangedByMultiQueue

\* Release: run to ready, or to delay when the caller gives a back-off.
QueueRelease(k, backoff) ==
    /\ item[k].tag = "run"
    /\ Transition(k, Entry({}, backoff), backoff)
    /\ UNCHANGED mqVars
    /\ unchangedByMultiQueue

\* Bury: run to bury.
QueueBury(k) ==
    /\ item[k].tag = "run"
    /\ Transition(k, "bury", 0)
    /\ UNCHANGED mqVars
    /\ unchangedByMultiQueue

\* Kick: bury to ready.
QueueKick(k) ==
    /\ item[k].tag = "bury"
    /\ Transition(k, "ready", 0)
    /\ UNCHANGED mqVars
    /\ unchangedByMultiQueue

\* TTR expiry: the head of the run queue, its deadline passed, is buried.
TTRExpiry ==
    /\ subq.run # <<>>
    /\ item[subq.run[1]].releaseAt <= now
    /\ Transition(subq.run[1], "bury", 0)
    /\ UNCHANGED mqVars
    /\ unchangedByMultiQueue

\* The items that waited for k alone.
Freed(k) == {w \in JobKeys : deps[w] = {k}}

\* The n-th smallest of a set of keys.
RECURSIVE Nth(_, _)
Nth(ks, n) ==
    LET least == CHOOSE k \in ks : \A j \in ks : k <= j
    IN  IF n = 1 THEN least ELSE Nth(ks \ {least}, n - 1)

\* The sub-queues and items once the first n of the items ws have stopped
\* waiting: each leaves depend for ready or delay, as its delay says.
RECURSIVE Woken(_, _, _, _)
Woken(it, sq, ws, n) ==
    IF n = 0
      THEN [it |-> it, sq |-> sq]
      ELSE LET prev == Woken(it, sq, ws, n - 1)
               w == Nth(ws, n)
               q == Entry({}, delayOf[w])
               it2 == [Left(prev.it, w) EXCEPT
                          ![w] = Entering(@, q, delayOf[w], Len(prev.sq[q]) + 1)]
           IN  [it |-> it2, sq |-> Moved(it2, prev.sq, w, "depend", q)]

\* Delete: the item leaves the sub-queue that holds it and the waitlists of
\* the other items; those that waited for nothing else stop waiting.
QueueDelete(k) ==
    /\ InQueue(k)
    /\ LET q == item[k].tag
           it1 == [Left(item, k) EXCEPT ![k] = NoItem]
           sq1 == [subq EXCEPT ![q] = Removed(item, q, @, IndexOf(@, k))]
           woken == Woken(it1, sq1, Freed(k), Cardinality(Freed(k)))
       IN  /\ item' = woken.it
           /\ subq' = woken.sq
    /\ deps' = [w \in ItemKeys |-> IF w = k THEN {} ELSE deps[w] \ {k}]
    /\ delayOf' = [w \in ItemKeys |-> IF w = k \/ w \in Freed(k) THEN 0 ELSE delayOf[w]]
    /\ deleted' = deleted + 1
    /\ UNCHANGED <<pushSeq, added, now>>
    /\ unchangedByMultiQueue

InitMultiQueue == NewServer([Cores |-> 2, RAM |-> 2], 2, 0, FALSE)

NextMultiQueue ==
    \/ \E k \in JobKeys, p \in Priorities, d \in Delays, ds \in SUBSET JobKeys : QueueAdd(k, p, d, ds)
    \/ QueueTick
    \/ DelayElapsed
    \/ QueueReserve
    \/ \E k \in JobKeys : QueueTouch(k)
    \/ \E k \in JobKeys, backoff \in Delays : QueueRelease(k, backoff)
    \/ \E k \in JobKeys : QueueBury(k)
    \/ \E k \in JobKeys : QueueKick(k)
    \/ TTRExpiry
    \/ \E k \in JobKeys : QueueDelete(k)

SpecMultiQueue == InitMultiQueue /\ [][NextMultiQueue]_vars

\* ------------------------------------- package scheduler: the k8s backend

unchangedByK8s == UNCHANGED <<serverVars, queueVars, mqVars, killVars, rewriteVars>>

\* config.ConfigMap values: none given, or the name of a config map.
ConfigMaps == {"", "cmA", "cmB"}

\* What Spawn, the controller and DestroyPod can answer.
SpawnResults == {"nil", "spawnErr"}
DestroyResults == {"nil", "destroyErr"}
Replies(op) == IF op = "runCmd" THEN {"nil", "podErr"} ELSE {"nil", "cantSchedule"}
AllReplies == Replies("runCmd") \cup Replies("reqCheck")

\* initialize (part_000:143-144) keeps the configuration it is given.
K8sInitialize(b, cm) ==
    /\ config[b] = "unset"
    /\ config' = [config EXCEPT ![b] = cm]
    /\ UNCHANGED <<defaultScriptName, calls, controller>>
    /\ unchangedByK8s

\* make(chan error), part_000:268 and :418: a channel of the call's own.
NewChan_Shared(c) == 1
NewChan(c) == c

\* part_000:385-387: a config map given replaces the package's script name.
ScriptName(cm, name) == IF cm # "" THEN cm ELSE name

\* runCmd is called on backend b (part_000:365-383).
K8sRunCmd(c, b) ==
    /\ calls[c].pc = "idle"
    /\ config[b] # "unset"
    /\ calls' = [calls EXCEPT ![c] = [@ EXCEPT !.op = "runCmd", !.backend = b, !.pc = "name"]]
    /\ UNCHANGED <<defaultScriptName, config, controller>>
    /\ unchangedByK8s

\* part_000:385-387
RunCmdName(c) ==
    /\ calls[c].op = "runCmd"
    /\ calls[c].pc = "name"
    /\ defaultScriptName' = ScriptName(config[calls[c].backend], defaultScriptName)
    /\ calls' = [calls EXCEPT ![c].pc = "spawn"]
    /\ UNCHANGED <<config, controller>>
    /\ unchangedByK8s

\* SpawnFailed, had runCmd not looked at Spawn's error.
SpawnFailed_Never(e) == FALSE

\* part_000:401: if err != nil
SpawnFailed(e) == e # "nil"

\* part_000:393-427: Spawn is given the script name; on an error false is
\* sent on reservedCh and the error returned, otherwise true is sent and a
\* goroutine started that sends the PodAlive request.
RunCmdSpawn(c, e) ==
    /\ calls[c].op = "runCmd"
    /\ calls[c].pc = "spawn"
    /\ calls' = [calls EXCEPT ![c] =
          IF SpawnFailed(e)
            THEN [@ EXCEPT !.script = defaultScriptName, !.spawn = e,
                           !.reserved = Append(@, FALSE), !.ret = e, !.pc = "done"]
            ELSE [@ EXCEPT !.script = defaultScriptName, !.spawn = e,
                           !.reserved = Append(@, TRUE),
                           !.cbChan = NewChan(c), !.pc = "waiting"]]
    /\ UNCHANGED <<defaultScriptName, config, controller>>
    /\ unchangedByK8s

\* reqCheck is called on backend b (part_000:255-278): a request with a
\* callback channel of its own, sent by a goroutine.
K8sReqCheck(c, b) ==
    /\ calls[c].pc = "idle"
    /\ config[b] # "unset"
    /\ calls' = [calls EXCEPT ![c] = [@ EXCEPT !.op = "reqCheck", !.backend = b,
                                                !.cbChan = NewChan(c), !.pc = "waiting"]]
    /\ UNCHANGED <<defaultScriptName, config, controller>>
    /\ unchangedByK8s

\* part_000:275-277 and :419-426: the goroutine's send on reqChan or
\* podAliveChan, taken by the controller.
ControllerReceives(c) ==
    /\ calls[c].pc \in {"waiting", "replied", "destroy", "done"}
    /\ calls[c].cbChan # 0
    /\ calls[c].sent = 0
    /\ calls' = [calls EXCEPT ![c].sent = @ + 1]
    /\ controller' = controller \cup {[for |-> c, op |-> calls[c].op, chan |-> calls[c].cbChan]}
    /\ UNCHANGED <<defaultScriptName, config>>
    /\ unchangedByK8s

\* part_000:287 and :433: the controller answers the request of call c on
\* the channel the request holds; a call waiting on that channel receives
\* the answer.
RequestOf(c) == CHOOSE q \in controller : q.for = c

ControllerReplies(c, d, e) ==
    /\ \E q \in controller : q.for = c
    /\ e \in Replies(RequestOf(c).op)
    /\ calls[d].pc = "waiting"
    /\ calls[d].cbChan = RequestOf(c).chan
    /\ controller' = controller \ {RequestOf(c)}
    /\ calls' = [calls EXCEPT ![d] = [@ EXCEPT !.reply = [for |-> c, err |-> e],
                                                !.pc = "replied"]]
    /\ UNCHANGED <<defaultScriptName, config>>
    /\ unchangedByK8s

\* part_000:287-293
ReqCheckReturns(c) ==
    /\ calls[c].op = "reqCheck"
    /\ calls[c].pc = "replied"
    /\ calls' = [calls EXCEPT ![c] = [@ EXCEPT !.ret = calls[c].reply.err, !.pc = "done"]]
    /\ UNCHANGED <<defaultScriptName, config, controller>>
    /\ unchangedByK8s

\* if err != nil, part_000:434
PodFailed_Never(e) == FALSE
PodFailed(e) == e # "nil"

\* part_000:433-437: an error from the controller is returned.
RunCmdPodStatus(c) ==
    /\ calls[c].op = "runCmd"
    /\ calls[c].pc = "replied"
    /\ calls' = [calls EXCEPT ![c] =
          IF PodFailed(calls[c].reply.err)
            THEN [@ EXCEPT !.ret = calls[c].reply.err, !.pc = "done"]
            ELSE [@ EXCEPT !.pc = "destroy"]]
    /\ UNCHANGED <<defaultScriptName, config, controller>>
    /\ unchangedByK8s

\* part_000:439-443: the pod is deleted and DestroyPod's result returned.
RunCmdDestroyPod(c, e) ==
    /\ calls[c].op = "runCmd"
    /\ calls[c].pc = "destroy"
    /\ calls' = [calls EXCEPT ![c] = [@ EXCEPT !.destroys = @ + 1, !.ret = e, !.pc = "done"]]
    /\ UNCHANGED <<defaultScriptName, config, controller>>
    /\ unchangedByK8s

InitK8s == NewServer([Cores |-> 2, RAM |-> 2], 2, 0, FALSE)

NextK8s ==
    \/ \E b \in Backends, cm \in ConfigMaps : K8sInitialize(b, cm)
    \/ \E c \in K8sCalls, b \in Backends : K8sRunCmd(c, b)
    \/ \E c \in K8sCalls : RunCmdName(c)
    \/ \E c \in K8sCalls, e \in SpawnResults : RunCmdSpawn(c, e)
    \/ \E c \in K8sCalls, b \in Backends : K8sReqCheck(c, b)
    \/ \E c \in K8sCalls : ControllerReceives(c)
    \/ \E c \in K8sCalls, d \in K8sCalls, e \in AllReplies : ControllerReplies(c, d, e)
    \/ \E c \in K8sCalls : ReqCheckReturns(c)
    \/ \E c \in K8sCalls : RunCmdPodStatus(c)
    \/ \E c \in K8sCalls, e \in DestroyResults : RunCmdDestroyPod(c, e)

SpecK8s == InitK8s /\ [][NextK8s]_vars

\* ------------------------------------------------ package cmd: wr kill

unchangedByKill == UNCHANGED <<serverVars, queueVars, mqVars, k8sVars, rewriteVars>>

\* The flags -f, -i, -l and -a (kill.go:88-91).
Selectors == {"f", "i", "l", "a"}

\* countGetJobArgs: how many of the four are given.
CountGetJobArgs(flags) == Cardinality(flags \cap Selectors)

\* die: the message is printed and the process exits with status 1.
Died == [kill EXCEPT !.pc = "exited", !.exit = 1]

\* kill.go:52 and :55
TooMany_Never(set) == FALSE
TooMany(set) == set > 1
TooFew(set) == set = 0

\* The manager's jobs are added, start and end as they will.
JobChanges(j, st) ==
    /\ jobState[j] # st
    /\ jobState' = [jobState EXCEPT ![j] = st]
    /\ UNCHANGED kill
    /\ unchangedByKill

\* kill.go:51-57: the command starts and counts its selectors.
KillRun(flags) ==
    /\ kill.pc = "idle"
    /\ kill' = IF TooMany(CountGetJobArgs(flags)) \/ TooFew(CountGetJobArgs(flags))
                 THEN [Died EXCEPT !.flags = flags]
                 ELSE [kill EXCEPT !.flags = flags, !.pc = "connect"]
    /\ UNCHANGED jobState
    /\ unchangedByKill

\* kill.go:59-60: connect dies when the manager cannot be reached.
KillConnect(ok) ==
    /\ kill.pc = "connect"
    /\ kill' = IF ok THEN [kill EXCEPT !.connects = @ + 1, !.pc = "getJobs"]
                     ELSE [Died EXCEPT !.connects = @ + 1]
    /\ UNCHANGED jobState
    /\ unchangedByKill

\* getJobs(jq, jobqueue.JobStateRunning, cmdAll, ...): of the jobs the
\* selector names (all of them with -a), those in the given state.
GetJobs(state, all, named) == {j \in (IF all THEN KillJobs ELSE named) : jobState[j] = state}

\* kill.go:69-73: no job got ends the command.
KillGetJobs(named) ==
    /\ kill.pc = "getJobs"
    /\ LET jobs == GetJobs("running", "a" \in kill.flags, named) IN
       kill' = IF Cardinality(jobs) = 0
                 THEN [Died EXCEPT !.jobs = jobs, !.seen = jobState]
                 ELSE [kill EXCEPT !.jobs = jobs, !.seen = jobState, !.pc = "kill"]
    /\ UNCHANGED jobState
    /\ unchangedByKill

\* kill.go:75-80: the jobs are passed to Kill; the command ends, and the
\* deferred Disconnect is run, unless Kill failed.
KillKill(failed) ==
    /\ kill.pc = "kill"
    /\ kill' = IF failed
                 THEN [Died EXCEPT !.passed = kill.jobs, !.killErr = TRUE]
                 ELSE [kill EXCEPT !.passed = kill.jobs, !.pc = "exited", !.exit = 0]
    /\ UNCHANGED jobState
    /\ unchangedByKill

InitKill == NewServer([Cores |-> 2, RAM |-> 2], 2, 0, FALSE)

NextKill ==
    \/ \E j \in KillJobs, st \in JobStates : JobChanges(j, st)
    \/ \E flags \in SUBSET Selectors : KillRun(flags)
    \/ \E ok \in BOOLEAN : KillConnect(ok)
    \/ \E named \in SUBSET KillJobs : KillGetJobs(named)
    \/ \E failed \in BOOLEAN : KillKill(failed)

SpecKill == InitKill /\ [][NextKill]_vars

\* --------------------------- package scheduler: rewriteConfigFiles (k8s)

unchangedByRewrite == UNCHANGED <<serverVars, queueVars, mqVars, k8sVars, killVars>>

\* Strings are sequences of characters.  The paths listed: ~/f, ~/d/g, the
\* absolute path /e, and ~x, which starts with a tilde and no slash.
ListedPaths ==
    {<<"~", "/", "f">>, <<"~", "/", "d", "/", "g">>, <<"/", "e">>, <<"~", "x">>}

\* os.Getenv("HOME") (part_000:457), usr.HomeDir (kubernetes.go:405) and
\* s.config.TempMountPath.
HomeDir == <<"/", "h">>
TempMountPath == <<"/", "m">>

\* The two versions of the function: part_000:452-511 and
\* src/jobqueue/scheduler/kubernetes.go:378-423.
Versions == {"newer", "older"}

\* The lists of up to MaxPaths paths.
PathLists == UNION {[1 .. n -> ListedPaths] : n \in 0 .. MaxPaths}

\* The list written as a configFiles string, comma separated.
RECURSIVE Join(_)
Join(list) ==
    IF list = <<>> THEN <<>>
    ELSE IF Len(list) = 1 THEN list[1]
    ELSE list[1] \o <<",">> \o Join(Tail(list))

\* strings.Split(configFiles, ","): Split of the empty string is the list
\* of the empty string.
RECURSIVE Split(_)
Split(str) ==
    IF \A i \in 1 .. Len(str) : str[i] # ","
      THEN <<str>>
      ELSE LET i == CHOOSE k \in 1 .. Len(str) :
                        str[k] = "," /\ \A j \in 1 .. k - 1 : str[j] # ","
           IN  <<SubSeq(str, 1, i - 1)>> \o Split(SubSeq(str, i + 1, Len(str)))

\* strings.HasPrefix and strings.TrimPrefix
HasPrefix(str, prefix) ==
    Len(str) >= Len(prefix) /\ SubSeq(str, 1, Len(prefix)) = prefix

TrimPrefix(str, prefix) ==
    IF HasPrefix(str, prefix) THEN SubSeq(str, Len(prefix) + 1, Len(str)) ELSE str

\* filepath.Dir: the path without its last element and the slash before it
\* ("." without any slash, "/" for a path in the root).  Clean has nothing
\* to do on the paths listed.
Dir(path) ==
    LET slashes == {i \in 1 .. Len(path) : path[i] = "/"} IN
    IF slashes = {} THEN <<".">>
    ELSE LET last == CHOOSE i \in slashes : \A j \in slashes : j <= i
         IN  IF last = 1 THEN <<"/">> ELSE SubSeq(path, 1, last - 1)

\* part_000:484 and :501, kubernetes.go:386 and :408
Tilde == <<"~", "/">>
IsRelative(path) == HasPrefix(path, Tilde)

\* part_000:466-474: the paths that os.Stat finds, after TildaToHome, on
\* the local disk; `present` is the set of those the disk holds.
RECURSIVE Existing(_, _)
Existing(split, present) ==
    IF split = <<>> THEN <<>>
    ELSE IF split[1] \in present
           THEN <<split[1]>> \o Existing(Tail(split), present)
           ELSE Existing(Tail(split), present)

\* part_000:486-490: the directory of the path under TempMountPath.
DestDir(path) == TempMountPath \o TrimPrefix(Dir(path), <<"~">>)

\* kubernetes.go:388-390: the path under TempMountPath.
Rewritten(path) == TempMountPath \o TrimPrefix(path, Tilde)

\* part_000:482-495 and kubernetes.go:384-395: the loop appends one
\* destination for each path with the prefix, and nothing for another.
RECURSIVE Dests(_, _)
Dests(paths, version) ==
    IF paths = <<>> THEN <<>>
    ELSE IF IsRelative(paths[1])
           THEN <<IF version = "newer" THEN DestDir(paths[1]) ELSE Rewritten(paths[1])>>
                   \o Dests(Tail(paths), version)
           ELSE Dests(Tail(paths), version)

\* part_000:503-504 and kubernetes.go:415-416: the local path.
LocalPath(path) == HomeDir \o <<"/">> \o TrimPrefix(path, Tilde)

\* part_000:500-509 and kubernetes.go:407-421: the loop over the paths from
\* position i on pairs a path that has the prefix with dests[i], the
\* destination at the path's own position in the list; an index past the
\* end of dests panics.
RECURSIVE FilePairs(_, _, _, _)
FilePairs(paths, dests, i, filePairs) ==
    IF i > Len(paths) THEN [panic |-> FALSE, filePairs |-> filePairs]
    ELSE IF ~IsRelative(paths[i]) THEN FilePairs(paths, dests, i + 1, filePairs)
    ELSE IF i > Len(dests) THEN [panic |-> TRUE, filePairs |-> <<>>]
    ELSE FilePairs(paths, dests, i + 1,
                   Append(filePairs, [Src |-> LocalPath(paths[i]), Dest |-> dests[i]]))

\* part_000:452-511 (the newer version drops first the paths that do not
\* exist) and kubernetes.go:378-423.
RewriteConfigFiles(version, configFiles, present) ==
    LET split == Split(configFiles)
        paths == IF version = "newer" THEN Existing(split, present) ELSE split
    IN  FilePairs(paths, Dests(paths, version), 1, <<>>)

\* A call of rewriteConfigFiles with a list of paths, some of which exist.
RewriteCall(version, list, present) ==
    /\ rewrite.pc = "idle"
    /\ present \subseteq {list[i] : i \in DOMAIN list}
    /\ rewrite' = [pc |-> "done", version |-> version, configFiles |-> Join(list),
                   present |-> present,
                   ret |-> RewriteConfigFiles(version, Join(list), present)]
    /\ unchangedByRewrite

InitRewrite == NewServer([Cores |-> 2, RAM |-> 2], 2, 0, FALSE)

NextRewrite ==
    \E version \in Versions, list \in PathLists, present \in SUBSET ListedPaths :
        RewriteCall(version, list, present)

SpecRewrite == InitRewrite /\ [][NextRewrite]_vars

\* ---------------------------------------------------------------- claims

\* C1: after any interleaving of Allocate and Release calls, each of
\* used-cores, used-RAM and used-disk is >= 0 and <= the host's capacity.
C1_UsedWithinCapacity ==
    /\ usedCores >= 0 /\ usedCores <= Flavor.Cores
    /\ usedRAM >= 0 /\ usedRAM <= Flavor.RAM
    /\ usedDisk >= 0 /\ usedDisk <= Disk

\* C2: a countdown during which an Allocate returned on a not yet destroyed
\* host never goes on to destroy the host.
C2_AllocateKeepsHostAlive ==
    ~(destroyedBy.by = "countdown" /\ allocDuring[destroyedBy.g])

\* C3: whenever a Release has left the host idle (used-cores <= 0, TTD > 0)
\* and no Allocate is called after it, the host is eventually destroyed.
C3_IdleHostEventuallyDestroyed ==
    (idleReleased /\ TTD > 0) ~> (destroyed \/ ~idleReleased)

\* The RunCmd calls that hold a session and have not returned.
Outstanding == {"session", "waitDone", "check", "recvOut", "return"}

\* C4: every RunCmd call that was outstanding when Destroy marked the host
\* destroyed returns the cancellation error.
C4_OutstandingRunCmdsReturnCancelled ==
    \A r \in RunCmds :
        (destroyed /\ atDestroy.rc[r] \in Outstanding /\ rc[r] = "returned")
            => ret[r].err = "cancelled"

\* C5: no sender of a destruction-cancel signal deadlocks: it never waits,
\* holding the host mutex, on a full cancelDestruction channel that no
\* countdown goroutine will receive from.
C5_NoCancelSenderDeadlocks ==
    ~(/\ mutex # "free"
      /\ cancelDestruction >= CancelDestructionCap
      /\ \A g \in Countdowns : countdown[g] # "select")

\* C6: when the host is destroyed every cancellation channel registered at
\* that moment is sent exactly one signal, and no channel is ever sent more
\* than one.
C6_EachRegisteredChannelSignalledOnce ==
    /\ \A r \in RunCmds : signals[r] <= 1
    /\ destroyed => \A r \in atDestroy.registered : signals[r] = 1

\* Two RunCmd calls were registered when the host was destroyed.
C6_Witness ==
    /\ destroyed
    /\ atDestroy.registered = RunCmds

\* C7: a Destroy call on an already destroyed host returns nil, changes no
\* field of the host, sends no cancellation signal and calls no provider.
C7_DestroyIdempotent ==
    [][(destroyed /\ (ClientDestroy \/ \E g \in Countdowns : CountdownDestroy(g)))
          => /\ destroyRet' = "nil"
             /\ UNCHANGED <<hostVars, mutex, cancelCh, signals, providerCalls>>]_vars

\* A second Destroy has returned nil (the first returns "provider not set"
\* on a host without provider) while the destroyed host was on deathrow.
C7_Witness ==
    /\ destroyed
    /\ ~provider
    /\ destroyRet = "nil"
    /\ onDeathrow

\* C8: onDeathrow is true exactly while an idle-destruction goroutine is
\* between setting it and clearing it, so it is true only while such a
\* goroutine is active and every goroutine that has ended, by cancellation or
\* by firing, has cleared it.
C8_OnDeathrowOnlyWhileCounting ==
    /\ onDeathrow <=> (\E g \in Countdowns : countdown[g] \in OnRow)
    /\ onDeathrow => (\E g \in Countdowns : countdown[g] \in Counting)

\* The goroutine whose timer fired has destroyed the host and ended, and the
\* host is not on deathrow.
C8_Witness ==
    /\ destroyedBy.by = "countdown"
    /\ countdown[destroyedBy.g] = "idle"
    /\ ~onDeathrow

\* C9: Release starts the goroutine only when it leaves used-cores <= 0 and
\* TTD > 0, the goroutine starts the countdown only when the host is not on
\* deathrow, and a host with TTD = 0 is never on deathrow and never destroyed
\* by a countdown.
C9_CountdownOnlyWhenIdle ==
    /\ [][\A g \in Countdowns :
            /\ (countdown[g] = "idle" /\ countdown'[g] = "start")
                  => (usedCores' <= 0 /\ TTD > 0)
            /\ (countdown[g] = "start" /\ countdown'[g] = "select")
                  => (~onDeathrow /\ onDeathrow')
            /\ (~onDeathrow /\ onDeathrow')
                  => (\E h \in Countdowns : countdown[h] = "start" /\ countdown'[h] = "select")]_vars
    /\ [](TTD = 0 => /\ ~onDeathrow
                     /\ destroyedBy.by # "countdown"
                     /\ \A g \in Countdowns : countdown[g] = "idle")

\* A countdown is running on an idle host.
C9_Witness ==
    /\ onDeathrow
    /\ usedCores <= 0
    /\ TTD > 0

Min(S) == CHOOSE x \in S : \A y \in S : x <= y

\* Floor of the minimum of free/required over the dimensions that are
\* required (there is one), 0 when one of them has less free than required.
CopiesThatFit(cores, ramMB, diskGB) ==
    LET dims == {d \in {<<Flavor.Cores - usedCores, cores>>,
                        <<Flavor.RAM - usedRAM, ramMB>>,
                        <<Disk - usedDisk, diskGB>>} : d[2] > 0}
    IN  IF \E d \in dims : d[1] < d[2]
          THEN 0
          ELSE Min({d[1] \div d[2] : d \in dims})

\* C10: HasSpaceFor returns the floor of the minimum of free/required over
\* the dimensions with a non-zero requirement, a zero requirement (cores = 0
\* included) being ignored.
C10_HasSpaceForIsMinRatio ==
    [][\A cores \in Reqs, ramMB \in Reqs, diskGB \in Reqs :
          (HasSpaceForCall(cores, ramMB, diskGB) /\ cores + ramMB + diskGB > 0)
              => hsf'.ret = [panic |-> FALSE, n |-> CopiesThatFit(cores, ramMB, diskGB)]]_vars

\* The copies of the observed job that are placed and not released.
Placed == tally.allocs - tally.releases

\* C11: after k Allocate(req) and j <= k Release(req) calls, for a req that
\* is positive in every dimension, HasSpaceFor(req) is the minimum over the
\* dimensions of floor((capacity - (k-j)*req) / req).
C11_CopiesTrackAllocations ==
    [][CountCopies =>
          hsf'.ret = [panic |-> FALSE,
                      n |-> Min({(Flavor.Cores - Placed * tally.job[1]) \div tally.job[1],
                                 (Flavor.RAM - Placed * tally.job[2]) \div tally.job[2],
                                 (Disk - Placed * tally.job[3]) \div tally.job[3]})]]_vars

\* C12: NotBad clears gone-bad if and only if no permanent problem is set:
\* with no problem string set, IsBad() is false after NotBad; while one is
\* set, IsBad() is true and stays true over every NotBad call, which leaves
\* the string unchanged.
C12_NotBadClearsIffNoPermanentProblem ==
    /\ [][NotBad => /\ PermanentProblem = "" => ~IsBad'
                    /\ PermanentProblem # "" => (IsBad' /\ PermanentProblem' = PermanentProblem)]_vars
    /\ [](PermanentProblem # "" => IsBad)

\* NotBad has been called on a host with a permanent problem.
C12_Witness ==
    /\ lastBadCall = "NotBad"
    /\ PermanentProblem # ""
    /\ IsBad

\* A Destroy call, by a client or by an idle-destruction goroutine, starts or
\* goes on after its blocked send.
DestroyStep ==
    \/ ClientDestroy
    \/ ClientDestroyResume
    \/ \E g \in Countdowns : CountdownDestroy(g) \/ CountdownDestroyResume(g)

\* C13: a Destroy call that returns on a host that was not destroyed (and
\* has a provider to call) leaves the host destroyed and gone-bad and has
\* called the provider's DestroyServer once; it returns the provider's error
\* exactly when DestroyServer failed and CheckServer reported that the
\* server still exists, and nil when DestroyServer succeeded or CheckServer
\* reported the server gone.
C13_DestroyReturnsErrorOnlyIfServerRemains ==
    [][(DestroyStep /\ ~destroyed /\ mutex' = "free" /\ provider) =>
          /\ destroyed' /\ goneBad'
          /\ providerCalls' = providerCalls + 1
          /\ destroyRet' \in {"err", "nil"}
          /\ destroyRet' = "err" <=>
                (providerSaid'.destroyFailed /\ providerSaid'.checked /\ providerSaid'.stillExists)
          /\ (~providerSaid'.destroyFailed \/ (providerSaid'.checked /\ ~providerSaid'.stillExists))
                => destroyRet' = "nil"]_vars

\* DestroyServer failed, CheckServer found the server gone, and Destroy
\* returned nil.
C13_Witness ==
    /\ destroyed
    /\ providerSaid.destroyFailed /\ providerSaid.checked /\ ~providerSaid.stillExists
    /\ destroyRet = "nil"
    /\ providerCalls = 1

\* RunCmd call r has started its goroutines (server.go:318, :330), and one of
\* them has not returned or the call's ssh session is still open.
Unfinished(r) ==
    /\ watcher[r] # "idle"
    /\ (watcher[r] # "end" \/ runner[r] # "end" \/ sessionOpen[r])

\* A step of some goroutine or of a RunCmd call that has started, or the
\* completion of a blocked send: what can happen without a new call from
\* outside.
GoroutineStep ==
    \/ \E g \in Countdowns : CountdownStep(g)
    \/ AllocateResume
    \/ ClientDestroyResume
    \/ \E r \in RunCmds : rc[r] # "idle" /\ RunCmdStep(r)

\* C14: RunCmd leaks nothing: no goroutine it started stays blocked for ever
\* (on done, finished, outCh, errCh or the host mutex) and the session gets
\* closed.  As long as a goroutine of the call has not returned or the
\* session is open, some goroutine can take a step; a state in which none
\* can lasts for ever.
C14_RunCmdLeaksNothing ==
    \A r \in RunCmds : Unfinished(r) => ENABLED GoroutineStep

\* C15: each RunCmd call registers its channel under an id that no other
\* call on the host has ever registered under; the channel is closed once
\* only, and with its entry removed; and the entry of a call that has
\* returned gets removed: while it is still there some goroutine can take a
\* step (a state in which none can lasts for ever, with the entry in the
\* registry).
C15_FreshIdAndEntryRemoved ==
    /\ [](\A r, q \in RunCmds :
            (r # q /\ registeredAs[r] >= 0 /\ registeredAs[q] >= 0)
                => registeredAs[r] # registeredAs[q])
    /\ [][\A r \in RunCmds : WatcherCleanup(r) => ~cancelCh[r].closed]_vars
    /\ [](\A r \in RunCmds : cancelCh[r].closed => r \notin Registered)
    /\ [](\A r \in RunCmds :
            (rc[r] = "returned" /\ r \in Registered) => ENABLED GoroutineStep)

\* C16: the cancellation registry is changed only by a step that has taken
\* the host lock, so never while a Destroy call (or another call) holds it,
\* before or during its walk; Destroy sends only on channels that are
\* registered and not closed, and no registered channel is closed.
C16_RegistryOnlyUnderLock ==
    /\ [][(cancelRunCmd' # cancelRunCmd \/ cancelID' # cancelID) => mutex = "free"]_vars
    /\ [][\A r \in RunCmds :
            signals'[r] > signals[r] => (r \in Registered /\ ~cancelCh[r].closed)]_vars
    /\ [](\A r \in Registered : ~cancelCh[r].closed)

\* A Destroy call waits for its send of server.go:628 holding the lock, with
\* a channel registered that it will walk over, whose goroutine waits for the
\* lock to close and de-register it.
C16_Witness ==
    /\ mutex = "countdown"
    /\ Registered # {}
    /\ \E r \in Registered : watcher[r] = "lock"

\* C17: once a host is destroyed it stays destroyed, whatever Allocate,
\* Release, GoneBad, NotBad, RunCmd, Destroy or the idle countdown do next.
C17_DestroyedStaysDestroyed ==
    [][destroyed => destroyed']_vars

\* On the destroyed host NotBad has cleared gone-bad, a RunCmd that was
\* called after the destruction has returned, and the job has been released.
C17_Witness ==
    /\ destroyed
    /\ ~goneBad /\ lastBadCall = "NotBad"
    /\ atDestroy.rc[1] = "idle" /\ rc[1] = "returned"
    /\ tally.releases = 1

\* ---------------------------------------------------------------------
\* C18  The dial loop of SSHClient always ends.  It ends only with a
\* client, at the 45th attempt that failed with an error other than a
\* connection error, or when limit has delivered, so connection errors are
\* retried until the limit and other errors at most 45 times.  SSHClient
\* returns a client, the one stored, or an error with no client stored.
InLoop(r) == ssh[r] = "select"
ClientFailed(r) == sshRet[r].err \in {"missing", "unparsable", "other", "giving up"}

C18_DialLoopTerminates ==
    /\ \A r \in RunCmds : InLoop(r) ~> ~InLoop(r)
    /\ [](ticks \in 0 .. MaxTicks - 1)
    /\ [][\A r \in RunCmds :
            InLoop(r) /\ ~InLoop(r)' =>
                \/ gotClient'[r] # 0
                \/ ticks = MaxTicks - 1 /\ sshRet'[r].err = "other"
                \/ elapsed >= sshTimeOut /\ sshRet'[r].err = "giving up"]_vars
    /\ [][\A r \in RunCmds :
            ssh[r] \in {"idle", "select"} /\ ssh'[r] \notin {"idle", "select"} =>
                \/ gotClient'[r] # 0 /\ gotClient'[r] = sshclient' /\ ssh'[r] = "client"
                \/ /\ gotClient'[r] = 0
                   /\ ClientFailed(r)'
                   /\ sshclient' = 0
                   /\ ssh'[r] = "returned"]_vars

\* One call gave up at the 45th counted failure and the next at the limit.
C18_Witness ==
    /\ sshRet[1].err = "other"
    /\ sshRet[2].err = "giving up"
    /\ sshclient = 0

C20_ClientMemoised ==
    /\ [][sshclient # 0 => sshclient' = sshclient /\ dialled' = dialled]_vars
    /\ [](\A r \in RunCmds : gotClient[r] # 0 => gotClient[r] = sshclient)
    /\ [](\A r \in RunCmds :
            sessionOpen[r] =>
                /\ sshRet[r].session.client = sshclient
                /\ sshclient # 0
                /\ \A q \in RunCmds \ {r} : sshRet[q].session # sshRet[r].session)

\* The second call got the first call's client without dialling, and both
\* RunCmds have a session.
C20_Witness ==
    /\ dialled[1] /\ ~dialled[2]
    /\ gotClient[2] = gotClient[1] /\ gotClient[1] # 0
    /\ sessionOpen[1] /\ sessionOpen[2]

\* ---------------------------------------------------------------------
\* C21  Destroy tears the stored SSH client down: a call of SSHClient that
\* starts on a destroyed host and gets a client has dialled that client
\* itself, it is not handed the one stored before the destruction.
C21_ClientTornDownWithHost ==
    [][\A r \in RunCmds :
        destroyed /\ ssh[r] = "idle" /\ gotClient'[r] # 0 => dialled'[r]]_vars

\* ---------------------------------------------------------------------
\* C22  Every pop of the delay sub-queue returns an item whose ready-at is
\* the smallest in the queue, so the items come out in non-decreasing
\* ready-at order in whatever order they were pushed; the ten items of the
\* test, left alone, pop as key_9, key_8, ..., key_0; a pop of the empty
\* queue returns nil.
Range(f) == {f[i] : i \in DOMAIN f}
Queued == Range(subq.delay)
PopReturns(k) == pops' = Append(pops, k) /\ popRet' = k

C22_PopsInReadyAtOrder ==
    /\ [][\A k \in ItemKeys :
            PopReturns(k) =>
                k \in Queued /\ \A j \in Queued : item[k].readyAt <= item[j].readyAt]_vars
    /\ [][popRet' # popRet =>
            IF subq.delay = <<>> THEN popRet' = Nil ELSE PopReturns(popRet')]_vars
    /\ [](Len(pops) = TestItems /\ lastUpdated = Nil =>
            pops = [i \in 1 .. TestItems |-> TestItems - i])

\* The ten items have all been popped, key_9 first and key_0 last, and a
\* further pop has returned nil.
C22_Witness ==
    /\ Len(pops) = TestItems
    /\ pops[1] = 9 /\ pops[TestItems] = 0
    /\ lastUpdated = Nil
    /\ popRet = Nil

\* ---------------------------------------------------------------------
\* C23  Removing a queued item takes exactly that item out: Len goes down
\* by one and the other items stay.  A removed item is never popped; the
\* queue holds each item that was pushed and neither popped nor removed
\* exactly once, and pop returns nil only when none is left.
C23_RemoveTakesOneItemOut ==
    /\ [][\A k \in ItemKeys :
            item[k].tag = "delay" /\ item'[k].tag = "removed" =>
                /\ Len(subq'.delay) = Len(subq.delay) - 1
                /\ Range(subq'.delay) = Queued \ {k}
                /\ pops' = pops]_vars
    /\ [](\A k \in ItemKeys :
            /\ item[k].tag = "removed" => k \notin Range(pops) /\ k \notin Queued
            /\ item[k].tag = "popped" <=> k \in Range(pops)
            /\ item[k].tag = "delay" <=> k \in Queued)
    /\ [](Cardinality(Queued) = Len(subq.delay) /\ Cardinality(Range(pops)) = Len(pops))
    /\ [][popRet' = Nil /\ popRet # Nil => subq.delay = <<>>]_vars

\* One item was removed from among five, the other four have been popped
\* and the queue is empty.
C23_Witness ==
    /\ item[1].tag = "removed"
    /\ Len(pops) = MaxItems - 1
    /\ subq.delay = <<>>
    /\ popRet = Nil

\* ---------------------------------------------------------------------
\* C24  update leaves the queue ordered by the ready-at values as they now
\* are, with the updated item in it exactly once and no other item gained
\* or lost: every later pop returns an item whose ready-at is the smallest,
\* and with key_9 moved to 2.5 seconds the head is key_8.
HeapOrdered(it, q, h) == \A j \in 2 .. Len(h) : ~Before(it, q, h[j], h[j \div 2])

C24_UpdateRepositions ==
    /\ [][lastUpdated' # lastUpdated =>
            /\ Range(subq'.delay) = Queued
            /\ Len(subq'.delay) = Len(subq.delay)
            /\ Cardinality({i \in 1 .. Len(subq'.delay) : subq'.delay[i] = lastUpdated'}) = 1
            /\ HeapOrdered(item', "delay", subq'.delay)]_vars
    /\ [](lastUpdated # Nil /\ subq.delay # <<>> =>
            \A j \in Queued : item[subq.delay[1]].readyAt <= item[j].readyAt)
    /\ [](/\ lastUpdated = 9
          /\ item[9].tag = "delay" /\ item[9].readyAt = 5
          /\ item[8].tag = "delay" /\ item[8].readyAt = TestDelay(8)
          => subq.delay[1] = 8)

\* key_9, the head, was moved to 2.5 seconds and the next pop returned key_8.
C24_Witness ==
    /\ lastUpdated = 9
    /\ item[9].tag = "delay" /\ item[9].readyAt = 5
    /\ pops = <<8>>

\* ---------------------------------------------------------------------
\* C25: runCmd calls DestroyPod only after the controller has answered the
\* PodAlive request with no error; a runCmd that has returned after an error
\* answer has returned that error and never called DestroyPod, and one that
\* has returned after a nil answer has called DestroyPod exactly once and
\* returned what DestroyPod returned.
Returned(c) == calls[c].pc = "done"
Answered(c) == calls[c].reply.for # 0

C25_PodDeletedIffTerminatedNormally ==
    \A c \in K8sCalls : calls[c].op = "runCmd" =>
        /\ calls[c].destroys > 0 => Answered(c) /\ calls[c].reply.err = "nil"
        /\ Returned(c) /\ Answered(c) /\ calls[c].reply.err # "nil" =>
              calls[c].ret = calls[c].reply.err /\ calls[c].destroys = 0
        /\ Returned(c) /\ Answered(c) /\ calls[c].reply.err = "nil" =>
              calls[c].destroys = 1 /\ calls[c].ret \in DestroyResults
        /\ Returned(c) /\ ~Answered(c) =>
              calls[c].ret = "spawnErr" /\ calls[c].destroys = 0

\* One runCmd has returned the controller's error with its pod left alone,
\* another has deleted its pod and returned DestroyPod's error.
C25_Witness ==
    /\ Returned(1) /\ calls[1].op = "runCmd"
    /\ calls[1].ret = "podErr" /\ calls[1].destroys = 0
    /\ Returned(2) /\ calls[2].op = "runCmd"
    /\ calls[2].reply = [for |-> 2, err |-> "nil"]
    /\ calls[2].ret = "destroyErr" /\ calls[2].destroys = 1

\* ---------------------------------------------------------------------
\* C26: a reqCheck call sends one request; it returns only once the
\* controller has answered, the answer it gets is the controller's answer to
\* its own request, and it returns that answer's error, whatever other calls
\* are waiting at the same time.
C26_ReqCheckReturnsOwnReply ==
    \A c \in K8sCalls : calls[c].op = "reqCheck" =>
        /\ calls[c].sent <= 1
        /\ Answered(c) => calls[c].reply.for = c /\ calls[c].sent = 1
        /\ Returned(c) => Answered(c) /\ calls[c].ret = calls[c].reply.err

\* While the second call's request is with the controller and the call still
\* waits, the first has been told its requirements can never be scheduled.
C26_Witness ==
    /\ calls[1].op = "reqCheck" /\ Returned(1) /\ calls[1].ret = "cantSchedule"
    /\ calls[2].op = "reqCheck" /\ calls[2].pc = "waiting" /\ calls[2].sent = 1

\* ---------------------------------------------------------------------
\* C29: the script name a runCmd call gives to Spawn is the one of its own
\* backend's configuration: the config map when one is configured, else the
\* default name, whatever calls were made on other backends.
OwnScriptName(b) == ScriptName(config[b], DefaultScriptName)
Spawned(c) == calls[c].op = "runCmd" /\ calls[c].reserved # <<>>

C29_ScriptNamePerInstance ==
    \A c \in K8sCalls : Spawned(c) => calls[c].script = OwnScriptName(calls[c].backend)

\* ---------------------------------------------------------------------
\* C30: a kill command given no selector, or more than one, has exited with
\* status 1 without having connected to the manager; one that found no
\* running job, or whose Kill call failed, has exited with status 1; and the
\* jobs passed to Kill were all running when the manager was asked for them.
KillExited == kill.pc = "exited"

C30_KillFails ==
    /\ kill.pc # "idle" /\ CountGetJobArgs(kill.flags) # 1 =>
          KillExited /\ kill.exit = 1 /\ kill.connects = 0
    /\ kill.jobs = {} => KillExited /\ kill.exit = 1 /\ kill.passed = NotCalled
    /\ kill.killErr => KillExited /\ kill.exit = 1
    /\ kill.passed # NotCalled =>
          \A j \in kill.passed : kill.seen[j] = "running"
    /\ kill.exit = 0 =>
          /\ CountGetJobArgs(kill.flags) = 1
          /\ kill.connects = 1
          /\ kill.passed = kill.jobs
          /\ kill.jobs # {}

\* kill -i -l has died at once, without a connection.
C30_Witness ==
    /\ kill.flags = {"i", "l"}
    /\ KillExited
    /\ kill.exit = 1
    /\ kill.connects = 0

\* ---------------------------------------------------------------------
\* C27: every item of the multi-state queue is held once by the sub-queue
\* its state tag names and by no other, an item the queue does not hold is
\* in none, and the five sub-queues together hold as many items as were ever
\* added less those ever deleted.
Holds(q, k) == Cardinality({i \in 1 .. Len(subq[q]) : subq[q][i] = k})
Held == Len(subq.delay) + Len(subq.ready) + Len(subq.run) + Len(subq.bury) + Len(subq.depend)

C27_InExactlyOneSubQueue ==
    /\ \A k \in ItemKeys, q \in SubQueues :
          Holds(q, k) = IF item[k].tag = q THEN 1 ELSE 0
    /\ Held = added - deleted

\* After three Adds and a Delete, one item is reserved and another buried.
C27_Witness ==
    /\ added = MaxAdds
    /\ deleted = 1
    /\ Len(subq.run) = 1
    /\ Len(subq.bury) = 1

\* ---------------------------------------------------------------------
\* C28: the item a Reserve takes from ready into run is one that no other
\* ready item precedes: none has a higher priority, and none of the same
\* priority was created earlier.
Precedes(x, y) ==
    \/ x.priority > y.priority
    \/ x.priority = y.priority /\ x.created < y.created

IsReserved(k) == item[k].tag = "ready" /\ item'[k].tag = "run"

C28_ReserveOrder ==
    [][\A k \in JobKeys : IsReserved(k) =>
          \A j \in JobKeys : item[j].tag = "ready" => ~Precedes(item[j], item[k])]_vars

\* The item reserved has priority 1 and was created at time 1; an item of
\* priority 0 created at time 0 entered ready before it and is still there.
C28_Witness ==
    \E k, j \in JobKeys :
        /\ item[k].tag = "run" /\ item[k].priority = 1 /\ item[k].created = 1
        /\ item[j].tag = "ready" /\ item[j].priority = 0 /\ item[j].created = 0
        /\ item[k].releaseAt = now + TTR
        /\ Len(subq.run) = 1
        /\ Len(subq.ready) = 1
        /\ added = 2

\* ---------------------------------------------------------------------
\* C31: when the Destroy call of a countdown goroutine marks the host
\* destroyed, no cores are in use.
MarkedByCountdown == ~destroyed /\ destroyed' /\ destroyedBy'.by = "countdown"

C31_IdleDestructionOnlyWhenIdle ==
    [][MarkedByCountdown => usedCores <= 0]_vars


\* ---------------------------------------------------------------------
\* C32: a RunCmd call that received the cancellation error on done returns
\* that error, with no stdout and no stderr.
C32_CancelledRunCmdReportsCancellation ==
    \A r \in RunCmds :
        (rc[r] = "returned" /\ ret[r].got = "cancelled")
            => ret[r].err = "cancelled" /\ ~ret[r].out


\* ---------------------------------------------------------------------
\* A goroutine of SSHSession call r that can never take another step: the
\* call has returned, so nobody receives from sessionCh or from done again.
BlockedForEver(r) ==
    /\ ssh[r] = "returned"
    /\ \/ openerG[r] = "sendSession"
       \/ timerG[r] = "sendDone" /\ Len(sdone[r]) >= SessionChCap
       \/ openerG[r] \in {"sendDone", "sendFailed"} /\ Len(sdone[r]) >= SessionChCap

\* C33: SSHSession leaks nothing once NewSession has returned: neither of
\* its goroutines is left blocked for ever, and a session NewSession made
\* is not left with a goroutine that cannot hand it over.
C33_SSHSessionLeaksNothing ==
    \A r \in RunCmds : ~BlockedForEver(r)


\* ---------------------------------------------------------------------
\* A countdown goroutine receives a cancellation.
ReceivesCancel(g) == countdown[g] = "select" /\ countdown'[g] = "cancelled"

\* C34: a cancellation sent during one countdown never cancels a later
\* one: what a countdown goroutine receives was sent after it began, and
\* the channel it begins with holds nothing of the countdown before.
C34_NoStaleCancellation ==
    [][/\ \A g \in Countdowns : ReceivesCancel(g) => stale = 0
       /\ stale' = 0]_vars

\* Cancellations nobody received are left in the channel of a countdown
\* that has ended, and the goroutine of a later Release is about to begin.
C34_Witness ==
    /\ cancelDestruction > 0
    /\ ~onDeathrow
    /\ \E g \in Countdowns : countdown[g] = "start"


\* ---------------------------------------------------------------------
\* The countdown goroutines that have set onDeathrow and not yet cleared it.
ActiveCountdowns == {g \in Countdowns : countdown[g] \in OnRow}

\* C35: at most one countdown is active at any time, and while one is, no
\* other goroutine of Release gets past the onDeathrow test or replaces the
\* channel.
C35_OneCountdownAtATime ==
    /\ Cardinality(ActiveCountdowns) <= 1
    /\ onDeathrow <=> ActiveCountdowns # {}

\* A second Release has started its goroutine while a countdown is active.
C35_Witness ==
    /\ onDeathrow
    /\ \E g \in Countdowns, h \in Countdowns :
          countdown[g] = "select" /\ countdown[h] = "start"


\* ---------------------------------------------------------------------
\* C36: the provider's DestroyServer is called at most once for a host,
\* whoever calls Destroy and whatever the provider answered, and by then the
\* host is marked destroyed.
C36_ProviderCalledAtMostOnce ==
    /\ providerCalls <= 1
    /\ providerCalls = 1 => destroyed

\* DestroyServer failed and the server still exists, so the Destroy call
\* returned the error; a later Destroy call has returned nil.
C36_Witness ==
    /\ providerCalls = 1
    /\ providerSaid.destroyFailed /\ providerSaid.stillExists
    /\ destroyRet = "nil"


\* server.go:660-664
Destroyed == destroyed

\* ---------------------------------------------------------------------
\* C37: a destroyed host is reported bad, whatever Destroy, GoneBad and
\* NotBad calls were made.
C37_DestroyedIsBad == Destroyed => IsBad

\* ---------------------------------------------------------------------
\* C38: a host with a permanent problem is gone-bad, whatever GoneBad calls
\* (with no, one or two messages), NotBad calls and Destroy calls were made.
C38_PermanentProblemIsBad == PermanentProblem # "" => IsBad

\* NotBad has been called on a destroyed host that has a permanent problem.
C38_Witness ==
    /\ Destroyed
    /\ PermanentProblem # ""
    /\ lastBadCall = "NotBad"
    /\ IsBad


RECURSIVE Kept(_, _, _)
Kept(version, split, present) ==
    IF split = <<>> THEN <<>>
    ELSE IF IsRelative(split[1]) /\ (version = "older" \/ split[1] \in present)
           THEN <<split[1]>> \o Kept(version, Tail(split), present)
           ELSE Kept(version, Tail(split), present)

\* C40: rewriteConfigFiles returns one pair for each such path, in the
\* order of the list, of the local path and the destination made from that
\* same path, wherever the paths without ~/ stand in the list.
C40_OnePairPerRelativePath ==
    rewrite.pc = "done" =>
        LET kept == Kept(rewrite.version, Split(rewrite.configFiles), rewrite.present) IN
        /\ ~rewrite.ret.panic
        /\ rewrite.ret.filePairs =
              [i \in 1 .. Len(kept) |->
                  [Src |-> LocalPath(kept[i]),
                   Dest |-> IF rewrite.version = "newer"
                              THEN DestDir(kept[i]) ELSE Rewritten(kept[i])]]

====
